---- MODULE Spec2Model ----
(***************************************************************************)
(* servicerestarter: the supervision loop (main.rs), the stop signal       *)
(* (wait_stopper.rs) and the registry value codec (registry.rs).           *)
(***************************************************************************)
EXTENDS Integers, Sequences, FiniteSets, TLC

(***************************************************************************)
(* Bounds of the model.                                                    *)
(***************************************************************************)
\* longest watch list the registry is given
MaxNames == 2
\* number of control notifications the dispatcher delivers in one run
MaxControls == 2
\* longest string and longest byte vector given to the codec
MaxStringLen == 2
\* most strings in a MultiString given to the codec
MaxElements == 2
\* longest stored payload, in bytes, given to decode_raw
MaxRawLen == 8
\* number of times the dispatcher calls run_service in one process
MaxRuns == 2

(***************************************************************************)
(* Registry value codec (registry.rs).                                     *)
(* A byte is 0..255, a UTF-16 code unit is 0..65535, an OsString is the    *)
(* sequence of its code units.  A 32-bit integer is kept as its two 16-bit *)
(* halves <<high, low>>, a 64-bit integer as four 16-bit words, most       *)
(* significant first, so that every number fits a 32-bit signed integer.   *)
(***************************************************************************)
RegistryValue(kind, val) == [kind |-> kind, val |-> val]

\* the value a panic in the codec stands for
Panicked == RegistryValue("Panic", <<>>)

\* u16::from_ne_bytes on the (little-endian) Windows targets
u16_from_ne_bytes(b0, b1) == b0 + 256 * b1

\* u16::to_ne_bytes
u16_to_ne_bytes(w) == <<w % 256, w \div 256>>

\* the code units of a byte string of even length
bytes_to_wide(bs) ==
    [i \in 1..(Len(bs) \div 2) |-> u16_from_ne_bytes(bs[2*i - 1], bs[2*i])]

RECURSIVE wide_to_bytes(_)
wide_to_bytes(ws) ==
    IF ws = <<>> THEN <<>>
    ELSE u16_to_ne_bytes(Head(ws)) \o wide_to_bytes(Tail(ws))

os_str_to_bytes(os_str) == wide_to_bytes(Append(os_str, 0))

\* variant: a payload of odd length is accepted and its last byte dropped
bytes_to_os_string_accepts_odd(bs) == FALSE

bytes_to_os_string_panics(bs) == Len(bs) % 2 # 0

\* variant: no trailing NUL is stripped
bytes_to_os_string_keeps_nul(bs) == bytes_to_wide(bs)

\* variant: every trailing NUL is stripped
bytes_to_os_string_strip_all(bs) ==
    LET ws == bytes_to_wide(bs)
        k == CHOOSE n \in 0..Len(ws) :
                 /\ \A i \in (n + 1)..Len(ws) : ws[i] = 0
                 /\ n = 0 \/ ws[n] # 0
    IN  SubSeq(ws, 1, k)

bytes_to_os_string(bs) ==
    LET ws == bytes_to_wide(bs)
    IN  IF Len(ws) > 0 /\ ws[Len(ws)] = 0
        THEN SubSeq(ws, 1, Len(ws) - 1)
        ELSE ws

\* variant: an empty slice is skipped and the loop goes on
RECURSIVE split_skip_empty(_, _, _)
split_skip_empty(ws, cur, acc) ==
    IF ws = <<>>
    THEN IF cur = <<>> THEN acc ELSE Append(acc, cur)
    ELSE IF Head(ws) = 0
         THEN split_skip_empty(Tail(ws), <<>>,
                               IF cur = <<>> THEN acc ELSE Append(acc, cur))
         ELSE split_skip_empty(Tail(ws), Append(cur, Head(ws)), acc)

\* variant: every slice is pushed, the empty ones too
RECURSIVE split_push_all(_, _, _)
split_push_all(ws, cur, acc) ==
    IF ws = <<>> THEN Append(acc, cur)
    ELSE IF Head(ws) = 0
         THEN split_push_all(Tail(ws), <<>>, Append(acc, cur))
         ELSE split_push_all(Tail(ws), Append(cur, Head(ws)), acc)

\* slice::split on NUL followed by the loop that stops at the first empty
\* slice: cur is the slice being collected, acc the strings pushed so far
RECURSIVE split_until_empty(_, _, _)
split_until_empty(ws, cur, acc) ==
    IF ws = <<>>
    THEN IF cur = <<>> THEN acc ELSE Append(acc, cur)
    ELSE IF Head(ws) = 0
         THEN IF cur = <<>> THEN acc
              ELSE split_until_empty(Tail(ws), <<>>, Append(acc, cur))
         ELSE split_until_empty(Tail(ws), Append(cur, Head(ws)), acc)

bytes_to_multi_os_string(bs) == split_until_empty(bytes_to_wide(bs), <<>>, <<>>)

u32_from_le_bytes(bs) ==
    <<u16_from_ne_bytes(bs[3], bs[4]), u16_from_ne_bytes(bs[1], bs[2])>>

u32_from_be_bytes(bs) ==
    <<u16_from_ne_bytes(bs[2], bs[1]), u16_from_ne_bytes(bs[4], bs[3])>>

u64_from_le_bytes(bs) ==
    <<u16_from_ne_bytes(bs[7], bs[8]), u16_from_ne_bytes(bs[5], bs[6]),
      u16_from_ne_bytes(bs[3], bs[4]), u16_from_ne_bytes(bs[1], bs[2])>>

u32_to_le_bytes(dw) == u16_to_ne_bytes(dw[2]) \o u16_to_ne_bytes(dw[1])

u32_to_be_bytes(dw) ==
    <<dw[1] \div 256, dw[1] % 256, dw[2] \div 256, dw[2] % 256>>

u64_to_le_bytes(qw) ==
    u16_to_ne_bytes(qw[4]) \o u16_to_ne_bytes(qw[3])
        \o u16_to_ne_bytes(qw[2]) \o u16_to_ne_bytes(qw[1])

\* u64::from(u32)
u32_into_u64(dw) == <<0, 0, dw[1], dw[2]>>

Contains(s, x) == \E i \in 1..Len(s) : s[i] = x

\* the outcome of ExpandEnvironmentStringsW is an input: env.ok tells whether
\* the call succeeded, env.out is what it wrote, terminator included
os_string_to_expand_value(os_string, env) ==
    IF Len(os_string) = 0
    THEN RegistryValue("ExpandString",
                       [unexpanded |-> os_string, expanded |-> os_string])
    ELSE IF ~env.ok THEN Panicked
    ELSE RegistryValue("ExpandString",
                       [unexpanded |-> os_string, expanded |-> env.out])

to_reg_value_type(v) ==
    CASE v.kind = "None" -> "REG_NONE"
      [] v.kind = "String" -> "REG_SZ"
      [] v.kind = "ExpandString" -> "REG_EXPAND_SZ"
      [] v.kind = "Binary" -> "REG_BINARY"
      [] v.kind = "Dword" -> "REG_DWORD"
      [] v.kind = "DwordBigEndian" -> "REG_DWORD_BIG_ENDIAN"
      [] v.kind = "Link" -> "REG_LINK"
      [] v.kind = "MultiString" -> "REG_MULTI_SZ"
      [] v.kind = "ResourceList" -> "REG_RESOURCE_LIST"
      [] v.kind = "FullResourceDescriptor" -> "REG_FULL_RESOURCE_DESCRIPTOR"
      [] v.kind = "ResourceRequirementsList" -> "REG_RESOURCE_REQUIREMENTS_LIST"
      [] v.kind = "Qword" -> "REG_QWORD"

RECURSIVE multi_to_wide(_)
multi_to_wide(ss) ==
    IF ss = <<>> THEN <<0>>
    ELSE Head(ss) \o <<0>> \o multi_to_wide(Tail(ss))

\* variant: only a NUL inside an element is refused
to_bytes_panics_nul_only(v) ==
    /\ v.kind = "MultiString"
    /\ \E i \in 1..Len(v.val) : Contains(v.val[i], 0)

to_bytes_panics(v) ==
    /\ v.kind = "MultiString"
    /\ \E i \in 1..Len(v.val) : Contains(v.val[i], 0) \/ Len(v.val[i]) = 0

\* variant: an ExpandString is encoded from its expanded field
to_bytes_of_expanded(v) ==
    CASE v.kind = "String" -> os_str_to_bytes(v.val)
      [] v.kind = "ExpandString" -> os_str_to_bytes(v.val.expanded)
      [] v.kind = "Dword" -> u32_to_le_bytes(v.val)
      [] v.kind = "DwordBigEndian" -> u32_to_be_bytes(v.val)
      [] v.kind = "Link" -> os_str_to_bytes(v.val)
      [] v.kind = "MultiString" -> wide_to_bytes(multi_to_wide(v.val))
      [] v.kind = "Qword" -> u64_to_le_bytes(v.val)
      [] OTHER -> v.val

to_bytes(v) ==
    CASE v.kind = "String" -> os_str_to_bytes(v.val)
      [] v.kind = "ExpandString" -> os_str_to_bytes(v.val.unexpanded)
      [] v.kind = "Dword" -> u32_to_le_bytes(v.val)
      [] v.kind = "DwordBigEndian" -> u32_to_be_bytes(v.val)
      [] v.kind = "Link" -> os_str_to_bytes(v.val)
      [] v.kind = "MultiString" -> wide_to_bytes(multi_to_wide(v.val))
      [] v.kind = "Qword" -> u64_to_le_bytes(v.val)
      [] OTHER -> v.val

decode_raw(reg_value_type, bs, env) ==
    CASE reg_value_type = "REG_NONE" -> RegistryValue("None", bs)
      [] reg_value_type = "REG_SZ" ->
            IF bytes_to_os_string_panics(bs) THEN Panicked
            ELSE RegistryValue("String", bytes_to_os_string(bs))
      [] reg_value_type = "REG_EXPAND_SZ" ->
            IF bytes_to_os_string_panics(bs) THEN Panicked
            ELSE os_string_to_expand_value(bytes_to_os_string(bs), env)
      [] reg_value_type = "REG_BINARY" -> RegistryValue("Binary", bs)
      [] reg_value_type = "REG_DWORD" ->
            IF Len(bs) # 4 THEN Panicked
            ELSE RegistryValue("Dword", u32_from_le_bytes(bs))
      [] reg_value_type = "REG_DWORD_BIG_ENDIAN" ->
            IF Len(bs) # 4 THEN Panicked
            ELSE RegistryValue("DwordBigEndian", u32_from_be_bytes(bs))
      [] reg_value_type = "REG_LINK" ->
            IF bytes_to_os_string_panics(bs) THEN Panicked
            ELSE RegistryValue("Link", bytes_to_os_string(bs))
      [] reg_value_type = "REG_MULTI_SZ" ->
            IF bytes_to_os_string_panics(bs) THEN Panicked
            ELSE RegistryValue("MultiString", bytes_to_multi_os_string(bs))
      [] reg_value_type = "REG_RESOURCE_LIST" -> RegistryValue("ResourceList", bs)
      [] reg_value_type = "REG_FULL_RESOURCE_DESCRIPTOR" ->
            RegistryValue("FullResourceDescriptor", bs)
      [] reg_value_type = "REG_RESOURCE_REQUIREMENTS_LIST" ->
            RegistryValue("ResourceRequirementsList", bs)
      [] reg_value_type = "REG_QWORD" ->
            IF Len(bs) # 8 THEN Panicked
            ELSE RegistryValue("Qword", u64_from_le_bytes(bs))
      [] OTHER -> Panicked

(***************************************************************************)
(* RegistryKeyHandle::read_value and read_value_optional (registry.rs).    *)
(* What the registry holds for a value name is an input of each read: the  *)
(* name is absent, the query fails otherwise, or a (type, bytes) pair is   *)
(* stored.                                                                 *)
(***************************************************************************)
NotFound == [status |-> "ERROR_FILE_NOT_FOUND", type |-> "", bytes |-> <<>>]
AccessDenied == [status |-> "ERROR_ACCESS_DENIED", type |-> "", bytes |-> <<>>]
Stored(t, bs) == [status |-> "NO_ERROR", type |-> t, bytes |-> bs]

\* variant: a value that is not found reads as an empty list
read_value_missing_as_empty(entry, env) ==
    IF entry.status = "ERROR_FILE_NOT_FOUND"
    THEN [ok |-> TRUE, err |-> "", some |-> TRUE,
          val |-> RegistryValue("MultiString", <<>>)]
    ELSE IF entry.status # "NO_ERROR"
    THEN [ok |-> FALSE, err |-> entry.status, some |-> FALSE, val |-> Panicked]
    ELSE [ok |-> TRUE, err |-> "", some |-> TRUE,
          val |-> decode_raw(entry.type, entry.bytes, env)]

\* Result<RegistryValue, Error>; a panic of the decoder is the value Panicked
read_value(entry, env) ==
    IF entry.status # "NO_ERROR"
    THEN [ok |-> FALSE, err |-> entry.status, some |-> FALSE, val |-> Panicked]
    ELSE [ok |-> TRUE, err |-> "", some |-> TRUE,
          val |-> decode_raw(entry.type, entry.bytes, env)]

\* variant: a value that is not found is an error for the optional read too
read_value_optional_strict(entry, env) == read_value(entry, env)

\* Result<Option<RegistryValue>, Error>
read_value_optional(entry, env) ==
    LET r == read_value(entry, env)
    IN  IF r.ok THEN r
        ELSE IF r.err = "ERROR_FILE_NOT_FOUND"
             THEN [ok |-> TRUE, err |-> "", some |-> FALSE, val |-> Panicked]
             ELSE r

\* variant: a value that is no integer gives a duration of zero
sleep_milliseconds_default(v) ==
    CASE v.kind = "Dword" -> u32_into_u64(v.val)
      [] v.kind = "DwordBigEndian" -> u32_into_u64(v.val)
      [] v.kind = "Qword" -> v.val
      [] OTHER -> <<0, 0, 0, 0>>

\* variant: the bytes of a DwordBigEndian are taken in the opposite order
sleep_milliseconds_be_swapped(v) ==
    CASE v.kind = "Dword" -> u32_into_u64(v.val)
      [] v.kind = "DwordBigEndian" ->
            u32_into_u64(<<(v.val[2] % 256) * 256 + (v.val[2] \div 256),
                           (v.val[1] % 256) * 256 + (v.val[1] \div 256)>>)
      [] v.kind = "Qword" -> v.val
      [] OTHER -> <<>>

\* the match that turns a sleep duration value into milliseconds (u64);
\* <<>> stands for the arm that panics
sleep_milliseconds(v) ==
    CASE v.kind = "Dword" -> u32_into_u64(v.val)
      [] v.kind = "DwordBigEndian" -> u32_into_u64(v.val)
      [] v.kind = "Qword" -> v.val
      [] OTHER -> <<>>

(***************************************************************************)
(* Inputs.                                                                 *)
(***************************************************************************)
\* service names: "A" and "B" as UTF-16 code units
Names == {<<65>>, <<66>>}

\* watch lists up to MaxNames names: A, B, A, ... (distinct neighbours) and
\* B, B, ... (a repeated name)
WatchLists ==
    {[i \in 1..n |-> IF i % 2 = 1 THEN <<65>> ELSE <<66>>] : n \in 0..MaxNames}
        \cup {[i \in 1..n |-> <<66>>] : n \in 1..MaxNames}

\* what the environment expansion may answer
EnvAnswers == {[ok |-> FALSE, out |-> <<>>], [ok |-> TRUE, out |-> <<67, 0>>]}

\* stored forms of a sleep duration: 500 and 2000 in the three integer
\* types, a DWORD of three bytes, and the text "5"
IntegerEntries ==
    { Stored("REG_DWORD", <<244, 1, 0, 0>>),
      Stored("REG_DWORD_BIG_ENDIAN", <<0, 0, 7, 208>>),
      Stored("REG_QWORD", <<208, 7, 0, 0, 0, 0, 0, 0>>),
      Stored("REG_DWORD", <<244, 1, 0>>),
      Stored("REG_SZ", <<53, 0, 0, 0>>) }

SleepEntries == {NotFound, AccessDenied} \cup IntegerEntries

\* stored forms of the watch list: every list up to MaxNames as written by
\* to_bytes, a list followed by ignored bytes, an odd-length payload, and
\* values of other types
ServicesEntries ==
    {NotFound, AccessDenied}
        \cup {Stored("REG_MULTI_SZ", to_bytes(RegistryValue("MultiString", l))) : l \in WatchLists}
        \cup { Stored("REG_MULTI_SZ", <<66, 0, 0, 0, 0, 0, 65, 0>>),
               Stored("REG_MULTI_SZ", <<65, 0, 0>>),
               Stored("REG_SZ", <<65, 0, 0, 0>>),
               Stored("REG_EXPAND_SZ", <<65, 0, 0, 0>>) }

ServiceStates ==
    {"Stopped", "StartPending", "StopPending", "Running",
     "ContinuePending", "PausePending", "Paused"}

ControlValues ==
    {"SERVICE_CONTROL_STOP", "SERVICE_CONTROL_INTERROGATE", "SERVICE_CONTROL_PAUSE"}

OperModes == {"Run", "Service"}

\* the modes in which main manages the installed service and returns
ManageModes == {"Start", "Stop", "Install", "Delete"}

(***************************************************************************)
(* State.                                                                  *)
(***************************************************************************)
VARIABLES
    mode,             \* arguments.mode: "Run" (foreground) or "Service"
    pc,               \* position of the thread that executes run
    service_info,     \* SERVICE_INFO: "unset", "None" or "Some"
    handler,          \* TRUE once the control handler is registered
    reports,          \* states reported through set_status, in order
    is_first_loop,    \* run: is_first_loop
    names,            \* run: names, the decoded watch list of this cycle
    idx,              \* run: position of the for loop in names (1-based)
    milliseconds,     \* run: milliseconds, the duration of the current wait
    handles,          \* open handles: registry, scm, service
    site,             \* which wait call is executing: "initial" / "regular"
    stop_result,      \* the StopResult the last wait call returned
    flag,             \* WaitStopper.mutex contents: wants_to_stop
    mutex,            \* holder of WaitStopper.mutex: "none", "run", "control"
    ctl,              \* position of the control handler on the dispatcher
    controls,         \* control notifications delivered so far
    calls,            \* service-manager calls of the current cycle
    hist,             \* observations about the current wait and the stop
    codec             \* a RegistryValue on its way through to_bytes and
                      \* decode_raw

vars == <<mode, pc, service_info, handler, reports, is_first_loop, names, idx,
          milliseconds, handles, site, stop_result, flag, mutex, ctl, controls,
          calls, hist, codec>>

NoHandles == [registry |-> FALSE, scm |-> FALSE, service |-> FALSE]

\* variant: the accessor negates the stored flag
wants_to_stop_inverted(r) == ~r

\* StopResult::wants_to_stop
wants_to_stop(r) == r

\* variant: both constructors store false
new_wants_to_stop_false == FALSE

\* StopResult::new_wants_to_stop and StopResult::new_does_not_want_to_stop
new_wants_to_stop == TRUE
\* variant: the result that wants to stop is made instead
new_does_not_want_to_stop_true == TRUE

new_does_not_want_to_stop == FALSE

\* variant: an Err is logged and the caller goes on
expect_log_continues(res) == FALSE

\* ExpectExtension::expect_log on the Result of a call: Err panics
expect_log_panics(res) == res # "ok"

\* a registry read: the value name, the status of the query, and the kind
\* of the decoded value ("Panic" when the decoder panics, "" when the query
\* returned no value)
Read(value, entry, env) ==
    [value |-> value, status |-> entry.status,
     kind |-> IF entry.status = "NO_ERROR"
              THEN decode_raw(entry.type, entry.bytes, env).kind
              ELSE ""]

NoRead == [value |-> "", status |-> "", kind |-> ""]

NoHist ==
    [everBlocked |-> FALSE,      \* this wait call blocked on the condition variable
     setWhileBlocked |-> FALSE,  \* stop() set the flag while this call was blocked
     beganAfterStop |-> FALSE,   \* a stop() call had completed when this call began
     wake |-> "none",            \* what ended the block: notify, timeout, spurious
     stopDone |-> FALSE,         \* some stop() call has completed
     cyclesAfterStop |-> 0,      \* cycles begun since a stop() call completed
     listRead |-> FALSE,         \* the watch list has been read in this run
     stopMidList |-> FALSE,      \* stop() set the flag in this cycle while the for
                                 \* loop had a later service still to process
     lastRead |-> NoRead]        \* the latest registry read and its outcome

\* no value is being converted
NoCodec ==
    [step |-> "idle", value |-> Panicked, reg_value_type |-> "", bs |-> <<>>,
     env |-> [ok |-> FALSE, out |-> <<>>], decoded |-> Panicked,
     again |-> Panicked]

\* the process before main has run
RunInit ==
    /\ mode \in OperModes
    /\ pc = "main"
    /\ service_info = "unset"
    /\ handler = FALSE
    /\ reports = <<>>
    /\ is_first_loop = TRUE
    /\ names = <<>>
    /\ idx = 0
    /\ milliseconds = <<>>
    /\ handles = NoHandles
    /\ site = "none"
    /\ stop_result = FALSE
    /\ flag = new_does_not_want_to_stop
    /\ mutex = "none"
    /\ ctl = "idle"
    /\ controls = 0
    /\ calls = <<>>
    /\ hist = NoHist

Init ==
    /\ RunInit
    /\ codec = NoCodec

\* the process has ended: by a panic, by main returning in foreground mode,
\* or after the service reported that it stopped
ProcessEnded == pc \in {"panicked", "exited", "service_stopped"}

\* log_panic!: the error is logged and the panic ends the process
log_panic ==
    /\ pc' = "panicked"
    /\ handles' = NoHandles

\* OnceCell::set: the cell keeps its first value
once_cell_set(cell, v) == IF cell = "unset" THEN v ELSE cell

(***************************************************************************)
(* main and run_service (main.rs).                                         *)
(***************************************************************************)
\* main: OperMode::Run sets SERVICE_INFO to None and calls run;
\* OperMode::Service starts the dispatcher, which calls run_service
Main(res) ==
    /\ pc = "main"
    /\ IF mode = "Run"
       THEN /\ service_info' = once_cell_set(service_info, "None")
            /\ pc' = "open_registry"
            /\ UNCHANGED handles
       ELSE /\ UNCHANGED service_info
            /\ IF expect_log_panics(res)
               THEN log_panic
               ELSE pc' = "run_service" /\ UNCHANGED handles
    /\ UNCHANGED <<mode, handler, reports, is_first_loop, names, idx, milliseconds,
                   site, stop_result, flag, mutex, ctl, controls, calls, hist>>
    /\ UNCHANGED codec

\* run_service: the argument check and the registration of service_control
RegisterHandler(num_args, res) ==
    /\ pc = "run_service"
    /\ IF num_args < 1 \/ expect_log_panics(res)
       THEN /\ log_panic
            /\ UNCHANGED handler
       ELSE /\ handler' = TRUE
            /\ pc' = "set_service_info"
            /\ UNCHANGED handles
    /\ UNCHANGED <<mode, service_info, reports, is_first_loop, names, idx,
                   milliseconds, site, stop_result, flag, mutex, ctl, controls,
                   calls, hist>>
    /\ UNCHANGED codec

\* variant: the ServiceInfo is built but not placed in SERVICE_INFO
SetServiceInfo_not_published ==
    /\ pc = "set_service_info"
    /\ pc' = "report_running"
    /\ UNCHANGED <<mode, service_info, handler, reports, is_first_loop, names,
                   idx, milliseconds, handles, site, stop_result, flag, mutex,
                   ctl, controls, calls, hist>>
    /\ UNCHANGED codec

\* run_service: a new WaitStopper, its flag clear, is offered to SERVICE_INFO;
\* a cell that is already set keeps the ServiceInfo it has, and with it the
\* WaitStopper and the flag of the earlier call (the Err of set is ignored)
SetServiceInfo ==
    /\ pc = "set_service_info"
    /\ service_info' = once_cell_set(service_info, "Some")
    /\ flag' = IF service_info = "unset" THEN new_does_not_want_to_stop ELSE flag
    /\ pc' = "report_running"
    /\ UNCHANGED <<mode, handler, reports, is_first_loop, names, idx,
                   milliseconds, handles, site, stop_result, mutex, ctl,
                   controls, calls, hist>>
    /\ UNCHANGED codec

\* variant: the status is not passed on to the service manager
set_status_dropped(rs, current_state) == rs

\* ServiceStatusHandle::set_status that succeeded: the service manager has one
\* more lifecycle report
set_status(rs, current_state) == Append(rs, current_state)

\* variant: the result of set_status is not looked at and run is called
ReportRunning_unchecked(res) ==
    /\ pc = "report_running"
    /\ IF service_info = "Some"
       THEN /\ reports' = IF expect_log_panics(res)
                           THEN reports
                           ELSE set_status(reports, "SERVICE_RUNNING")
            /\ pc' = "open_registry"
            /\ UNCHANGED handles
       ELSE /\ log_panic
            /\ UNCHANGED reports
    /\ UNCHANGED <<mode, service_info, handler, is_first_loop, names, idx,
                   milliseconds, site, stop_result, flag, mutex, ctl, controls,
                   calls, hist>>
    /\ UNCHANGED codec

\* run_service: set_status(SERVICE_RUNNING), then the call of run
ReportRunning(res) ==
    /\ pc = "report_running"
    /\ IF service_info = "Some" /\ ~expect_log_panics(res)
       THEN /\ reports' = set_status(reports, "SERVICE_RUNNING")
            /\ pc' = "open_registry"
            /\ UNCHANGED handles
       ELSE /\ log_panic
            /\ UNCHANGED reports
    /\ UNCHANGED <<mode, service_info, handler, is_first_loop, names, idx,
                   milliseconds, site, stop_result, flag, mutex, ctl, controls,
                   calls, hist>>
    /\ UNCHANGED codec

\* after run returned: run_service reports SERVICE_STOPPED, main returns
AfterRun(res) ==
    /\ pc = "terminated"
    /\ IF mode = "Run"
       THEN pc' = "exited" /\ UNCHANGED <<reports, handles>>
       ELSE IF service_info = "Some" /\ ~expect_log_panics(res)
            THEN /\ reports' = set_status(reports, "SERVICE_STOPPED")
                 /\ pc' = "service_stopped"
                 /\ UNCHANGED handles
            ELSE log_panic /\ UNCHANGED reports
    /\ UNCHANGED <<mode, service_info, handler, is_first_loop, names, idx,
                   milliseconds, site, stop_result, flag, mutex, ctl, controls,
                   calls, hist>>
    /\ UNCHANGED codec

\* the dispatcher calls run_service again in the same process, after the
\* earlier call reported SERVICE_STOPPED and returned: the locals of run
\* start anew, the statics (SERVICE_INFO and the WaitStopper in it) stay
Reinvoke ==
    /\ pc = "service_stopped"
    /\ Len(reports) < 2 * MaxRuns
    /\ pc' = "run_service"
    /\ is_first_loop' = TRUE
    /\ names' = <<>>
    /\ idx' = 0
    /\ milliseconds' = <<>>
    /\ site' = "none"
    /\ stop_result' = FALSE
    /\ calls' = <<>>
    /\ hist' = NoHist
    /\ UNCHANGED <<mode, service_info, handler, reports, handles, flag, mutex,
                   ctl, controls>>
    /\ UNCHANGED codec

(***************************************************************************)
(* run (main.rs): one action per registry or service-manager call.         *)
(***************************************************************************)
Call(op, i, name, res) == [op |-> op, idx |-> i, name |-> name, res |-> res]

\* the access rights run asks for when it opens a watched service
LoopServicePermissions == {"QUERY_STATUS", "STOP"}

\* variant: every cycle reads and waits the initial delay
loop_entry_always_initial(first) == "read_initial"

\* variant: a later cycle goes on with the watch list it has
loop_entry_cached_list(first) == IF first THEN "read_initial" ELSE "connect"

\* `if is_first_loop`: only the first cycle reads the initial delay
loop_entry(first) == IF first THEN "read_initial" ELSE "read_services"

\* top of the loop: RegistryKeyHandle::open_predefined
OpenRegistry(res) ==
    /\ pc = "open_registry"
    /\ calls' = <<>>
    /\ hist' = [hist EXCEPT !.cyclesAfterStop =
                    IF hist.stopDone /\ @ < 2 THEN @ + 1 ELSE @,
                            !.stopMidList = FALSE]
    /\ IF expect_log_panics(res)
       THEN log_panic
       ELSE /\ handles' = [handles EXCEPT !.registry = TRUE]
            /\ pc' = loop_entry(is_first_loop)
    /\ UNCHANGED <<mode, service_info, handler, reports, is_first_loop, names,
                   idx, milliseconds, site, stop_result, flag, mutex, ctl,
                   controls>>
    /\ UNCHANGED codec

\* first cycle only: read InitialSleepDurationMilliseconds; if it is present
\* the initial wait is called with its value
ReadInitial(entry, env) ==
    /\ pc = "read_initial"
    /\ is_first_loop' = FALSE
    /\ LET r == read_value_optional(entry, env)
           ms == sleep_milliseconds(r.val)
       IN  IF ~r.ok \/ (r.some /\ ms = <<>>)
           THEN log_panic /\ UNCHANGED <<milliseconds, site>>
           ELSE IF ~r.some
           THEN /\ pc' = "read_services"
                /\ UNCHANGED <<milliseconds, site, handles>>
           ELSE /\ milliseconds' = ms
                /\ site' = "initial"
                /\ pc' = "wait_enter"
                /\ UNCHANGED handles
    /\ hist' = [hist EXCEPT !.lastRead =
                    Read("InitialSleepDurationMilliseconds", entry, env)]
    /\ UNCHANGED <<mode, service_info, handler, reports, names, idx,
                   stop_result, flag, mutex, ctl, controls, calls>>
    /\ UNCHANGED codec

\* variant: a watch list without a name is refused like a wrong value
ReadServices_empty_refused(entry, env) ==
    /\ pc = "read_services"
    /\ LET r == read_value(entry, env)
       IN  IF r.ok /\ r.val.kind = "MultiString" /\ r.val.val # <<>>
           THEN /\ names' = r.val.val
                /\ pc' = "connect"
                /\ UNCHANGED handles
           ELSE log_panic /\ UNCHANGED names
    /\ hist' = [hist EXCEPT !.listRead = TRUE,
                            !.lastRead = Read("ServicesExpectedRunning", entry, env)]
    /\ UNCHANGED <<mode, service_info, handler, reports, is_first_loop, idx,
                   milliseconds, site, stop_result, flag, mutex, ctl, controls,
                   calls>>
    /\ UNCHANGED codec

\* read ServicesExpectedRunning; it must decode to a MultiString
ReadServices(entry, env) ==
    /\ pc = "read_services"
    /\ LET r == read_value(entry, env)
       IN  IF r.ok /\ r.val.kind = "MultiString"
           THEN /\ names' = r.val.val
                /\ pc' = "connect"
                /\ UNCHANGED handles
           ELSE log_panic /\ UNCHANGED names
    /\ hist' = [hist EXCEPT !.listRead = TRUE,
                            !.lastRead = Read("ServicesExpectedRunning", entry, env)]
    /\ UNCHANGED <<mode, service_info, handler, reports, is_first_loop, idx,
                   milliseconds, site, stop_result, flag, mutex, ctl, controls,
                   calls>>
    /\ UNCHANGED codec

\* ServiceControlManagerHandle::open_local_active; the for loop begins, and
\* with an empty list it ends at once and the manager handle is dropped
Connect(res) ==
    /\ pc = "connect"
    /\ calls' = Append(calls, Call("connect", 0, <<>>, res))
    /\ IF expect_log_panics(res)
       THEN log_panic /\ UNCHANGED idx
       ELSE IF names = <<>>
            THEN pc' = "read_sleep" /\ UNCHANGED <<handles, idx>>
            ELSE /\ handles' = [handles EXCEPT !.scm = TRUE]
                 /\ idx' = 1
                 /\ pc' = "open_service"
    /\ UNCHANGED <<mode, service_info, handler, reports, is_first_loop, names,
                   milliseconds, site, stop_result, flag, mutex, ctl, controls,
                   hist>>
    /\ UNCHANGED codec

\* scm.open_service(name, QUERY_STATUS | STOP)
OpenService(res) ==
    /\ pc = "open_service"
    /\ calls' = Append(calls, Call("open", idx, names[idx], res))
    /\ IF expect_log_panics(res)
       THEN log_panic
       ELSE /\ handles' = [handles EXCEPT !.service = TRUE]
            /\ pc' = "get_state"
    /\ UNCHANGED <<mode, service_info, handler, reports, is_first_loop, names,
                   idx, milliseconds, site, stop_result, flag, mutex, ctl,
                   controls, hist>>
    /\ UNCHANGED codec

\* variant: the for loop examines the stop flag after every service
EndIteration_cancellable ==
    /\ handles' = IF flag THEN NoHandles
                  ELSE [handles EXCEPT !.service = FALSE, !.scm = (idx < Len(names))]
    /\ idx' = IF ~flag /\ idx < Len(names) THEN idx + 1 ELSE 0
    /\ pc' = IF flag THEN "terminated"
             ELSE IF idx < Len(names) THEN "open_service" ELSE "read_sleep"

\* variant: after the last name of a longer list the loop goes over the
\* list once more from its first name
EndIteration_restarts ==
    /\ handles' = [handles EXCEPT !.service = FALSE,
                                  !.scm = (idx < Len(names) \/ Len(names) > 1)]
    /\ idx' = IF idx < Len(names) THEN idx + 1
              ELSE IF Len(names) > 1 THEN 1 ELSE 0
    /\ pc' = IF idx < Len(names) \/ Len(names) > 1 THEN "open_service"
             ELSE "read_sleep"

\* variant: a name that occurred earlier in the list is skipped
EndIteration_dedup ==
    LET rest == {i \in (idx + 1)..Len(names) :
                    \A j \in 1..(i - 1) : names[j] # names[i]}
        nxt == IF rest = {} THEN 0
               ELSE CHOOSE i \in rest : \A j \in rest : i <= j
    IN  /\ handles' = [handles EXCEPT !.service = FALSE, !.scm = (nxt # 0)]
        /\ idx' = nxt
        /\ pc' = IF nxt # 0 THEN "open_service" ELSE "read_sleep"

\* variant: the service handle is not dropped at the end of an iteration
EndIteration_keeps_service ==
    /\ handles' = [handles EXCEPT !.scm = (idx < Len(names))]
    /\ idx' = IF idx < Len(names) THEN idx + 1 ELSE 0
    /\ pc' = IF idx < Len(names) THEN "open_service" ELSE "read_sleep"

\* end of one iteration of the for loop: the service handle is dropped; after
\* the last name the manager handle is dropped too
EndIteration ==
    /\ handles' = [handles EXCEPT !.service = FALSE, !.scm = (idx < Len(names))]
    /\ idx' = IF idx < Len(names) THEN idx + 1 ELSE 0
    /\ pc' = IF idx < Len(names) THEN "open_service" ELSE "read_sleep"

\* variant: every service that is not running is started
needs_start_not_running(service_state) == service_state # "Running"

\* the test that decides whether a queried service is started
needs_start(service_state) == service_state = "Stopped"

\* service.get_state() and the comparison with ServiceState::Stopped;
\* "unexpected" is a status value outside ServiceState
GetState(res) ==
    /\ pc = "get_state"
    /\ calls' = Append(calls, Call("query", idx, names[idx], res))
    /\ IF res \in ServiceStates
       THEN IF needs_start(res)
            THEN pc' = "start" /\ UNCHANGED <<handles, idx>>
            ELSE EndIteration
       ELSE log_panic /\ UNCHANGED idx
    /\ UNCHANGED <<mode, service_info, handler, reports, is_first_loop, names,
                   milliseconds, site, stop_result, flag, mutex, ctl, controls,
                   hist>>
    /\ UNCHANGED codec

\* service.start(vec![])
StartService(res) ==
    /\ pc = "start"
    /\ calls' = Append(calls, Call("start", idx, names[idx], res))
    /\ IF expect_log_panics(res)
       THEN log_panic /\ UNCHANGED idx
       ELSE EndIteration
    /\ UNCHANGED <<mode, service_info, handler, reports, is_first_loop, names,
                   milliseconds, site, stop_result, flag, mutex, ctl, controls,
                   hist>>
    /\ UNCHANGED codec

\* read SleepDurationMilliseconds; the regular wait is called with its value
ReadSleep(entry, env) ==
    /\ pc = "read_sleep"
    /\ LET r == read_value(entry, env)
           ms == sleep_milliseconds(r.val)
       IN  IF ~r.ok \/ ms = <<>>
           THEN log_panic /\ UNCHANGED <<milliseconds, site>>
           ELSE /\ milliseconds' = ms
                /\ site' = "regular"
                /\ pc' = "wait_enter"
                /\ UNCHANGED handles
    /\ hist' = [hist EXCEPT !.lastRead =
                    Read("SleepDurationMilliseconds", entry, env)]
    /\ UNCHANGED <<mode, service_info, handler, reports, is_first_loop, names,
                   idx, stop_result, flag, mutex, ctl, controls, calls>>
    /\ UNCHANGED codec

(***************************************************************************)
(* WaitStopper (wait_stopper.rs), as called from run.                      *)
(***************************************************************************)
\* variant: a wait that timed out reports "does not want to stop"
wait_return_timeout_false(guard, wake) == IF wake = "timeout" THEN FALSE ELSE guard

\* variant: a wait that timed out reports "wants to stop"
wait_return_timeout_true(guard, wake) == IF wake = "timeout" THEN TRUE ELSE guard

\* the value wait_until_stop_timeout returns after the condition variable
\* wait: the flag as read under the re-acquired mutex
wait_return(guard, wake) == guard

\* variant: stop() does not notify the condition variable
notify_all_none(p) == p

\* Condvar::notify_all on the position of the thread that runs the loop
notify_all(p) == IF p = "wait_blocked" THEN "wait_woken" ELSE p

\* variant: the result of the initial wait is not examined
after_wait_initial_ignored(s, r) ==
    IF s = "initial" THEN "read_services"
    ELSE IF r THEN "terminated"
    ELSE "open_registry"

\* variant: the result of the regular wait is not examined
after_wait_regular_ignored(s, r) ==
    IF s = "initial" THEN (IF r THEN "terminated" ELSE "read_services")
    ELSE "open_registry"

\* where run continues after a wait call returned r at the given call site
after_wait(s, r) ==
    IF wants_to_stop(r) THEN "terminated"
    ELSE IF s = "initial" THEN "read_services"
    ELSE "open_registry"

\* wait_until_stop_timeout_opt is called: without a WaitStopper (foreground
\* mode) the thread sleeps, with one it goes on to lock the mutex
WaitEnter ==
    /\ pc = "wait_enter"
    /\ IF service_info = "Some"
       THEN pc' = "wait_lock" /\ UNCHANGED handles
       ELSE IF service_info = "None"
            THEN pc' = "wait_sleeping" /\ UNCHANGED handles
            ELSE log_panic
    /\ hist' = [hist EXCEPT !.everBlocked = FALSE, !.setWhileBlocked = FALSE,
                            !.beganAfterStop = hist.stopDone, !.wake = "none"]
    /\ UNCHANGED <<mode, service_info, handler, reports, is_first_loop, names,
                   idx, milliseconds, site, stop_result, flag, mutex, ctl,
                   controls, calls>>
    /\ UNCHANGED codec

\* self.mutex.lock()
WaitLock ==
    /\ pc = "wait_lock"
    /\ mutex = "none"
    /\ mutex' = "run"
    /\ pc' = "wait_locked"
    /\ UNCHANGED <<mode, service_info, handler, reports, is_first_loop, names,
                   idx, milliseconds, handles, site, stop_result, flag, ctl,
                   controls, calls, hist>>
    /\ UNCHANGED codec

\* under the mutex: return at once if the flag is set, otherwise
\* cond_var.wait_timeout releases the mutex and blocks
WaitCheck ==
    /\ pc = "wait_locked"
    /\ mutex' = "none"
    /\ IF wants_to_stop(flag)
       THEN /\ stop_result' = flag
            /\ pc' = "wait_done"
            /\ UNCHANGED hist
       ELSE /\ pc' = "wait_blocked"
            /\ hist' = [hist EXCEPT !.everBlocked = TRUE]
            /\ UNCHANGED stop_result
    /\ UNCHANGED <<mode, service_info, handler, reports, is_first_loop, names,
                   idx, milliseconds, handles, site, flag, ctl, controls, calls>>
    /\ UNCHANGED codec

\* the timeout of wait_timeout elapses
WaitTimeout ==
    /\ pc = "wait_blocked"
    /\ pc' = "wait_woken"
    /\ hist' = [hist EXCEPT !.wake = "timeout"]
    /\ UNCHANGED <<mode, service_info, handler, reports, is_first_loop, names,
                   idx, milliseconds, handles, site, stop_result, flag, mutex,
                   ctl, controls, calls>>
    /\ UNCHANGED codec

\* the condition variable wakes up without a notification or a timeout
WaitSpurious ==
    /\ pc = "wait_blocked"
    /\ pc' = "wait_woken"
    /\ hist' = [hist EXCEPT !.wake = "spurious"]
    /\ UNCHANGED <<mode, service_info, handler, reports, is_first_loop, names,
                   idx, milliseconds, handles, site, stop_result, flag, mutex,
                   ctl, controls, calls>>
    /\ UNCHANGED codec

\* wait_timeout re-acquires the mutex and the flag is returned
WaitReacquire ==
    /\ pc = "wait_woken"
    /\ mutex = "none"
    /\ stop_result' = wait_return(flag, hist.wake)
    /\ pc' = "wait_done"
    /\ UNCHANGED <<mode, service_info, handler, reports, is_first_loop, names,
                   idx, milliseconds, handles, site, flag, mutex, ctl, controls,
                   calls, hist>>
    /\ UNCHANGED codec

\* foreground mode: sleep(timeout) ends and "does not want to stop" is returned
SleepElapsed ==
    /\ pc = "wait_sleeping"
    /\ stop_result' = new_does_not_want_to_stop
    /\ pc' = "wait_done"
    /\ UNCHANGED <<mode, service_info, handler, reports, is_first_loop, names,
                   idx, milliseconds, handles, site, flag, mutex, ctl, controls,
                   calls, hist>>
    /\ UNCHANGED codec

\* run, after either wait: return if the result wants to stop; otherwise go
\* on to the watch list (initial wait) or to the next cycle (regular wait),
\* where the registry handle of this cycle is dropped
AfterWait ==
    /\ pc = "wait_done"
    /\ pc' = after_wait(site, stop_result)
    /\ handles' = IF pc' = "read_services" THEN handles ELSE NoHandles
    /\ milliseconds' = <<>>
    /\ hist' = IF pc' = "terminated" THEN hist
               ELSE [hist EXCEPT !.everBlocked = FALSE, !.setWhileBlocked = FALSE,
                                 !.beganAfterStop = FALSE, !.wake = "none"]
    /\ UNCHANGED <<mode, service_info, handler, reports, is_first_loop, names,
                   idx, site, stop_result, flag, mutex, ctl, controls, calls>>
    /\ UNCHANGED codec

(***************************************************************************)
(* service_control (main.rs) on the dispatcher thread, and                 *)
(* WaitStopper::stop.                                                      *)
(***************************************************************************)
\* variant: every control value but interrogate stops the loop
is_stop_control_or_unknown(control_value) ==
    control_value # "SERVICE_CONTROL_INTERROGATE"

\* the match arm of service_control that calls stop()
is_stop_control(control_value) == control_value = "SERVICE_CONTROL_STOP"

\* the dispatcher calls service_control(control_value)
Deliver(control_value) ==
    /\ ctl = "idle"
    /\ handler
    /\ ~ProcessEnded
    /\ controls < MaxControls
    /\ controls' = controls + 1
    /\ IF is_stop_control(control_value)
       THEN IF service_info = "Some"
            THEN ctl' = "stop_lock" /\ UNCHANGED <<pc, handles>>
            ELSE log_panic /\ UNCHANGED ctl
       ELSE UNCHANGED <<ctl, pc, handles>>
    /\ UNCHANGED <<mode, service_info, handler, reports, is_first_loop, names,
                   idx, milliseconds, site, stop_result, flag, mutex, calls, hist>>
    /\ UNCHANGED codec

\* stop: self.mutex.lock()
StopLock ==
    /\ ctl = "stop_lock"
    /\ ~ProcessEnded
    /\ mutex = "none"
    /\ mutex' = "control"
    /\ ctl' = "stop_locked"
    /\ UNCHANGED <<mode, pc, service_info, handler, reports, is_first_loop,
                   names, idx, milliseconds, handles, site, stop_result, flag,
                   controls, calls, hist>>
    /\ UNCHANGED codec

\* stop: the flag is set and the guard is dropped
StopSet ==
    /\ ctl = "stop_locked"
    /\ ~ProcessEnded
    /\ flag' = new_wants_to_stop
    /\ mutex' = "none"
    /\ ctl' = "stop_notify"
    /\ hist' = [hist EXCEPT !.setWhileBlocked =
                    @ \/ pc \in {"wait_blocked", "wait_woken"},
                            !.stopMidList =
                    @ \/ (/\ ~flag
                          /\ pc \in {"open_service", "get_state", "start"}
                          /\ idx < Len(names))]
    /\ UNCHANGED <<mode, pc, service_info, handler, reports, is_first_loop,
                   names, idx, milliseconds, handles, site, stop_result,
                   controls, calls>>
    /\ UNCHANGED codec

\* stop: self.cond_var.notify_all(), and stop returns
StopNotify ==
    /\ ctl = "stop_notify"
    /\ ~ProcessEnded
    /\ pc' = notify_all(pc)
    /\ ctl' = "idle"
    /\ hist' = [hist EXCEPT !.stopDone = TRUE,
                            !.wake = IF pc' # pc THEN "notify" ELSE @]
    /\ UNCHANGED <<mode, service_info, handler, reports, is_first_loop, names,
                   idx, milliseconds, handles, site, stop_result, flag, mutex,
                   controls, calls>>
    /\ UNCHANGED codec

(***************************************************************************)
(* Specifications.                                                         *)
(***************************************************************************)
Results == {"ok", "err"}

RunNext ==
    \/ \E res \in Results : Main(res)
    \/ \E num_args \in {0, 1}, res \in Results : RegisterHandler(num_args, res)
    \/ SetServiceInfo
    \/ \E res \in Results : ReportRunning(res)
    \/ \E res \in Results : OpenRegistry(res)
    \/ \E entry \in SleepEntries, env \in EnvAnswers : ReadInitial(entry, env)
    \/ \E entry \in ServicesEntries, env \in EnvAnswers : ReadServices(entry, env)
    \/ \E res \in Results : Connect(res)
    \/ \E res \in Results : OpenService(res)
    \/ \E res \in ServiceStates \cup {"err", "unexpected"} : GetState(res)
    \/ \E res \in Results : StartService(res)
    \/ \E entry \in SleepEntries, env \in EnvAnswers : ReadSleep(entry, env)
    \/ WaitEnter
    \/ WaitLock
    \/ WaitCheck
    \/ WaitTimeout
    \/ WaitReacquire
    \/ SleepElapsed
    \/ AfterWait
    \/ \E res \in Results : AfterRun(res)

ControlNext ==
    \/ \E control_value \in ControlValues : Deliver(control_value)
    \/ StopLock
    \/ StopSet
    \/ StopNotify

Next == RunNext \/ WaitSpurious \/ ControlNext

Spec == Init /\ [][Next]_vars

\* the process when the dispatcher may call run_service more than once
RerunNext == Next \/ Reinvoke

RerunSpec == Init /\ [][RerunNext]_vars

(***************************************************************************)
(* main in the modes start, stop and delete (main.rs).  names holds the    *)
(* one service name of the arguments, calls the service-manager calls.     *)
(***************************************************************************)
\* the access rights main asks for when it opens the service
ManagePermissions(m) ==
    CASE m = "Start" -> {"START"}
      [] m = "Stop" -> {"STOP"}
      [] m = "Install" -> {}
      [] m = "Delete" -> {"QUERY_STATUS", "STOP", "DELETE"}

ManageInit ==
    /\ mode \in ManageModes
    /\ names \in {<<n>> : n \in Names}
    /\ pc = "main"
    /\ service_info = "unset"
    /\ handler = FALSE
    /\ reports = <<>>
    /\ is_first_loop = TRUE
    /\ idx = 1
    /\ milliseconds = <<>>
    /\ handles = NoHandles
    /\ site = "none"
    /\ stop_result = FALSE
    /\ flag = new_does_not_want_to_stop
    /\ mutex = "none"
    /\ ctl = "idle"
    /\ controls = 0
    /\ calls = <<>>
    /\ hist = NoHist
    /\ codec = NoCodec

\* main returns: the handles are dropped
manage_return ==
    /\ pc' = "exited"
    /\ handles' = NoHandles

\* install mode: std::env::current_exe().expect_log, then the command line
\* of the service is put together
ManageCurrentExe(res) ==
    /\ pc = "main"
    /\ mode = "Install"
    /\ IF expect_log_panics(res)
       THEN log_panic
       ELSE pc' = "manage_connect" /\ UNCHANGED handles
    /\ UNCHANGED <<mode, service_info, handler, reports, is_first_loop, names,
                   idx, milliseconds, site, stop_result, flag, mutex, ctl,
                   controls, calls, hist>>
    /\ UNCHANGED codec

\* ServiceControlManagerHandle::open_local_active(..).expect_log
ManageConnect(res) ==
    /\ IF mode = "Install" THEN pc = "manage_connect" ELSE pc = "main"
    /\ mode \in ManageModes
    /\ calls' = Append(calls, Call("connect", 0, <<>>, res))
    /\ IF expect_log_panics(res)
       THEN log_panic
       ELSE /\ handles' = [handles EXCEPT !.scm = TRUE]
            /\ pc' = IF mode = "Install" THEN "manage_create" ELSE "manage_open"
    /\ UNCHANGED <<mode, service_info, handler, reports, is_first_loop, names,
                   idx, milliseconds, site, stop_result, flag, mutex, ctl,
                   controls, hist>>
    /\ UNCHANGED codec

\* scm_conn.open_service(&arguments.service_name, ..).expect_log
ManageOpen(res) ==
    /\ pc = "manage_open"
    /\ calls' = Append(calls, Call("open", idx, names[idx], res))
    /\ IF expect_log_panics(res)
       THEN log_panic
       ELSE /\ handles' = [handles EXCEPT !.service = TRUE]
            /\ pc' = CASE mode = "Start" -> "manage_start"
                       [] mode = "Stop" -> "manage_stop"
                       [] mode = "Delete" -> "manage_get_state"
    /\ UNCHANGED <<mode, service_info, handler, reports, is_first_loop, names,
                   idx, milliseconds, site, stop_result, flag, mutex, ctl,
                   controls, hist>>
    /\ UNCHANGED codec

\* install mode: scm_conn.create_service(..).expect_log; the handle of the
\* new service is dropped at once
ManageCreate(res) ==
    /\ pc = "manage_create"
    /\ calls' = Append(calls, Call("create", idx, names[idx], res))
    /\ IF expect_log_panics(res) THEN log_panic ELSE manage_return
    /\ UNCHANGED <<mode, service_info, handler, reports, is_first_loop, names,
                   idx, milliseconds, site, stop_result, flag, mutex, ctl,
                   controls, hist>>
    /\ UNCHANGED codec

\* start mode: service.start(vec![&arguments.service_name]).expect_log
ManageStart(res) ==
    /\ pc = "manage_start"
    /\ calls' = Append(calls, Call("start", idx, names[idx], res))
    /\ IF expect_log_panics(res) THEN log_panic ELSE manage_return
    /\ UNCHANGED <<mode, service_info, handler, reports, is_first_loop, names,
                   idx, milliseconds, site, stop_result, flag, mutex, ctl,
                   controls, hist>>
    /\ UNCHANGED codec

\* variant: only a service that is Running is stopped before the delete
needs_stop_only_running(service_state) == service_state = "Running"

\* delete mode: `if service_state != ServiceState::Stopped`
needs_stop(service_state) == service_state # "Stopped"

\* delete mode: service.get_state().expect_log and the comparison with
\* ServiceState::Stopped
ManageGetState(res) ==
    /\ pc = "manage_get_state"
    /\ calls' = Append(calls, Call("query", idx, names[idx], res))
    /\ IF res \in ServiceStates
       THEN /\ pc' = IF needs_stop(res) THEN "manage_stop" ELSE "manage_delete"
            /\ UNCHANGED handles
       ELSE log_panic
    /\ UNCHANGED <<mode, service_info, handler, reports, is_first_loop, names,
                   idx, milliseconds, site, stop_result, flag, mutex, ctl,
                   controls, hist>>
    /\ UNCHANGED codec

\* service.stop().expect_log: the last call of stop mode; in delete mode the
\* delete follows
ManageStop(res) ==
    /\ pc = "manage_stop"
    /\ calls' = Append(calls, Call("stop", idx, names[idx], res))
    /\ IF expect_log_panics(res)
       THEN log_panic
       ELSE IF mode = "Delete"
            THEN pc' = "manage_delete" /\ UNCHANGED handles
            ELSE manage_return
    /\ UNCHANGED <<mode, service_info, handler, reports, is_first_loop, names,
                   idx, milliseconds, site, stop_result, flag, mutex, ctl,
                   controls, hist>>
    /\ UNCHANGED codec

\* delete mode: service.delete().expect_log
ManageDelete(res) ==
    /\ pc = "manage_delete"
    /\ calls' = Append(calls, Call("delete", idx, names[idx], res))
    /\ IF expect_log_panics(res) THEN log_panic ELSE manage_return
    /\ UNCHANGED <<mode, service_info, handler, reports, is_first_loop, names,
                   idx, milliseconds, site, stop_result, flag, mutex, ctl,
                   controls, hist>>
    /\ UNCHANGED codec

ManageNext ==
    \/ \E res \in Results : ManageCurrentExe(res)
    \/ \E res \in Results : ManageConnect(res)
    \/ \E res \in Results : ManageCreate(res)
    \/ \E res \in Results : ManageOpen(res)
    \/ \E res \in Results : ManageStart(res)
    \/ \E res \in ServiceStates \cup {"err", "unexpected"} : ManageGetState(res)
    \/ \E res \in Results : ManageStop(res)
    \/ \E res \in Results : ManageDelete(res)

ManageSpec == ManageInit /\ [][ManageNext]_vars

\* the thread that runs the loop keeps running and a timeout elapses in the
\* end; a stop() call that has begun runs to its end
FairSpec ==
    /\ Spec
    /\ WF_vars(RunNext)
    /\ WF_vars(StopLock \/ StopSet \/ StopNotify)

(***************************************************************************)
(* The codec on its own: a RegistryValue is encoded with to_reg_value_type *)
(* and to_bytes, and what was encoded is decoded with decode_raw.          *)
(***************************************************************************)
SeqsUpTo(S, n) == UNION {[1..k -> S] : k \in 0..n}

\* code units: NUL, 'A', and one whose two bytes differ (U+0142)
CodeUnits == {0, 65, 322}
Strings == SeqsUpTo(CodeUnits, MaxStringLen)
ByteVectors == SeqsUpTo({0, 1, 255}, MaxStringLen)
\* 0, 500, 0xDEADBEEF, 0xFFFFFFFF, 0x00010000
Dwords == {<<0, 0>>, <<0, 500>>, <<57005, 48879>>, <<65535, 65535>>, <<1, 0>>}
\* 0, 2000, 0x0001000200030004, 0xDEADBEEFCAFEBABE
Qwords == {<<0, 0, 0, 0>>, <<0, 0, 0, 2000>>, <<1, 2, 3, 4>>,
           <<57005, 48879, 51966, 47806>>}
ByteKinds ==
    {"None", "Binary", "ResourceList", "FullResourceDescriptor",
     "ResourceRequirementsList"}

\* the values of enum RegistryValue that are given to the codec
RegistryValues ==
    {RegistryValue(k, bs) : k \in ByteKinds, bs \in ByteVectors}
    \cup {RegistryValue(k, str) : k \in {"String", "Link"}, str \in Strings}
    \cup {RegistryValue("ExpandString", [unexpanded |-> u, expanded |-> e]) :
             u \in Strings, e \in {<<>>, <<67, 0>>}}
    \cup {RegistryValue("Dword", dw) : dw \in Dwords}
    \cup {RegistryValue("DwordBigEndian", dw) : dw \in Dwords}
    \cup {RegistryValue("Qword", qw) : qw \in Qwords}
    \cup {RegistryValue("MultiString", ss) : ss \in SeqsUpTo(Strings, MaxElements)}

\* the type tags decode_raw knows, and one it does not know
KnownTypes ==
    {"REG_NONE", "REG_SZ", "REG_EXPAND_SZ", "REG_BINARY", "REG_DWORD",
     "REG_DWORD_BIG_ENDIAN", "REG_LINK", "REG_MULTI_SZ", "REG_RESOURCE_LIST",
     "REG_FULL_RESOURCE_DESCRIPTOR", "REG_RESOURCE_REQUIREMENTS_LIST",
     "REG_QWORD"}
RawTypes == KnownTypes \cup {"REG_UNKNOWN"}

\* stored payloads: the bytes 0x00 and 0x41 in every arrangement
RawPayloads == SeqsUpTo({0, 65}, MaxRawLen)

\* the codec is given a value to encode, or a stored (type, payload) pair to
\* decode
CodecInit ==
    /\ RunInit
    /\ mode = "Run"
    /\ \/ \E v \in RegistryValues :
             codec = [NoCodec EXCEPT !.step = "value", !.value = v]
       \/ \E t \in RawTypes, bs \in RawPayloads :
             codec = [NoCodec EXCEPT !.step = "raw", !.reg_value_type = t,
                                     !.bs = bs]

\* value.to_reg_value_type() and value.to_bytes(); to_bytes may panic
ToBytes ==
    /\ codec.step = "value"
    /\ codec' = IF to_bytes_panics(codec.value)
                THEN [codec EXCEPT !.step = "to_bytes_panicked"]
                ELSE [codec EXCEPT !.step = "encoded",
                                   !.reg_value_type = to_reg_value_type(codec.value),
                                   !.bs = to_bytes(codec.value)]
    /\ UNCHANGED <<mode, pc, service_info, handler, reports, is_first_loop,
                   names, idx, milliseconds, handles, site, stop_result, flag,
                   mutex, ctl, controls, calls, hist>>

\* to_reg_value_type() and to_bytes() of a value that decode_raw returned for
\* a stored payload; to_bytes may panic
ReEncode ==
    /\ codec.step = "raw_decoded"
    /\ codec' = IF to_bytes_panics(codec.decoded)
                THEN [codec EXCEPT !.step = "reencode_panicked"]
                ELSE [codec EXCEPT !.step = "reencoded",
                                   !.reg_value_type = to_reg_value_type(codec.decoded),
                                   !.bs = to_bytes(codec.decoded)]
    /\ UNCHANGED <<mode, pc, service_info, handler, reports, is_first_loop,
                   names, idx, milliseconds, handles, site, stop_result, flag,
                   mutex, ctl, controls, calls, hist>>

\* decode_raw of the bytes that ReEncode produced
DecodeAgain(env) ==
    /\ codec.step = "reencoded"
    /\ LET v == decode_raw(codec.reg_value_type, codec.bs, env)
       IN  codec' = IF v = Panicked
                    THEN [codec EXCEPT !.env = env, !.step = "redecode_panicked"]
                    ELSE [codec EXCEPT !.env = env, !.step = "redecoded",
                                       !.again = v]
    /\ UNCHANGED <<mode, pc, service_info, handler, reports, is_first_loop,
                   names, idx, milliseconds, handles, site, stop_result, flag,
                   mutex, ctl, controls, calls, hist>>

\* RegistryValue::decode_raw(reg_value_type, &bs); env is what
\* ExpandEnvironmentStringsW answers if it is called
DecodeRaw(env) ==
    /\ codec.step \in {"encoded", "raw"}
    /\ LET v == decode_raw(codec.reg_value_type, codec.bs, env)
           of_raw == codec.step = "raw"
       IN  codec' = IF v = Panicked
                    THEN [codec EXCEPT !.env = env,
                                       !.step = IF of_raw THEN "raw_panicked"
                                                ELSE "decode_raw_panicked"]
                    ELSE [codec EXCEPT !.env = env,
                                       !.step = IF of_raw THEN "raw_decoded"
                                                ELSE "decoded",
                                       !.decoded = v]
    /\ UNCHANGED <<mode, pc, service_info, handler, reports, is_first_loop,
                   names, idx, milliseconds, handles, site, stop_result, flag,
                   mutex, ctl, controls, calls, hist>>

CodecNext ==
    \/ ToBytes
    \/ \E env \in EnvAnswers : DecodeRaw(env)
    \/ ReEncode
    \/ \E env \in EnvAnswers : DecodeAgain(env)

CodecSpec == CodecInit /\ [][CodecNext]_vars

(***************************************************************************)
(* Properties of the supervision loop and of the stop signal.              *)
(***************************************************************************)
IsQuery(c) == c.op = "query"
IsStart(c) == c.op = "start"
Failed(c) == c.res \in {"err", "unexpected"}
Terminated == pc \in {"terminated", "exited", "service_stopped"}

\* C1: in every cycle, for every occurrence of a name in the watch list, a
\* start is issued for the service if and only if the state just queried for
\* it is Stopped: a query that answered Stopped is followed by the start of the
\* same occurrence, a query that answered any other state is not, and every
\* start directly follows a query of the same occurrence that answered Stopped.
StartIffStopped ==
    /\ \A k \in 1..Len(calls) :
          /\ (IsQuery(calls[k]) /\ calls[k].res = "Stopped") =>
                IF k = Len(calls) THEN pc = "start"
                ELSE /\ IsStart(calls[k + 1])
                     /\ calls[k + 1].idx = calls[k].idx
                     /\ calls[k + 1].name = calls[k].name
          /\ (IsQuery(calls[k]) /\ calls[k].res # "Stopped") =>
                IF k = Len(calls) THEN pc # "start"
                ELSE ~IsStart(calls[k + 1])
          /\ IsStart(calls[k]) =>
                /\ k > 1
                /\ IsQuery(calls[k - 1])
                /\ calls[k - 1].res = "Stopped"
                /\ calls[k - 1].idx = calls[k].idx
                /\ calls[k].name = names[calls[k].idx]
    /\ pc = "start" =>
          /\ calls # <<>>
          /\ IsQuery(calls[Len(calls)])
          /\ calls[Len(calls)].res = "Stopped"

\* watch list [A, B], A answered Running and B answered Stopped: the cycle
\* is over and its one start targets B
StartIffStoppedWitness ==
    /\ pc = "read_sleep"
    /\ names = <<<<65>>, <<66>>>>
    /\ LET queries == SelectSeq(calls, IsQuery)
           starts == SelectSeq(calls, IsStart)
       IN  /\ Len(queries) = 2
           /\ queries[1].res = "Running"
           /\ queries[2].res = "Stopped"
           /\ Len(starts) = 1
           /\ starts[1].name = <<66>>

\* C2: no lost wake-up: once a stop() call has completed the loop thread is
\* not blocked on the condition variable, and a wait call that was blocked
\* when stop() set the flag, or that began after a stop() call completed,
\* returns "wants to stop".
NoLostWakeup ==
    /\ hist.stopDone => pc # "wait_blocked"
    /\ (pc = "wait_done" /\ (hist.setWhileBlocked \/ hist.beganAfterStop)) =>
          stop_result

\* a wait that blocked, was notified by stop() and returned "wants to stop"
NoLostWakeupWitness ==
    /\ pc = "wait_done"
    /\ hist.everBlocked
    /\ hist.setWhileBlocked
    /\ hist.wake = "notify"
    /\ stop_result

\* C3: a wait call that begins after a stop() call completed never blocks on
\* the condition variable and returns "wants to stop", whatever its timeout.
StoppedBeforeWaitReturnsAtOnce ==
    hist.beganAfterStop =>
        /\ ~hist.everBlocked
        /\ pc \notin {"wait_blocked", "wait_woken"}
        /\ pc = "wait_done" => stop_result

\* such a wait call has returned
StoppedBeforeWaitWitness ==
    /\ pc = "wait_done"
    /\ hist.beganAfterStop
    /\ ~hist.everBlocked
    /\ stop_result

\* C4: the stop flag starts false and is monotonic: no step resets it, the
\* only step that changes it is the assignment inside stop(), which leaves it
\* true also when it was true already; no step of wait writes it.
StopFlagMonotonic ==
    /\ flag = FALSE
    /\ [][/\ flag => flag'
          /\ flag' # flag => ctl = "stop_locked"
          /\ (ctl = "stop_locked" /\ ctl' = "stop_notify") => flag']_vars

\* a second stop() call has assigned the flag after a first one completed
StopFlagMonotonicWitness ==
    /\ hist.stopDone
    /\ ctl = "stop_notify"
    /\ flag

\* C5: in managed mode a completed stop() call leads to the end of the loop,
\* unless a call fails and the process panics; after the stop the loop is
\* never blocked in a wait and begins at most one more cycle.
StopLeadsToTermination ==
    /\ [](hist.cyclesAfterStop <= 1)
    /\ [](hist.stopDone => pc # "wait_blocked")
    /\ (hist.stopDone ~> (Terminated \/ pc = "panicked"))

\* the loop returned after a stop() call that raced with a wait that had
\* timed out: one full cycle was run after the stop
StopLeadsToTerminationWitness ==
    /\ mode = "Service"
    /\ pc = "terminated"
    /\ hist.stopDone
    /\ hist.cyclesAfterStop = 1

\* C6: once the initial wait has reported "wants to stop" the loop only
\* returns: the watch list is never read and no service-manager call is made
\* in that run.
InitialStopTerminatesDirectly ==
    (site = "initial" /\ stop_result) =>
        /\ pc \in {"wait_done", "terminated", "exited", "service_stopped", "panicked"}
        /\ ~hist.listRead
        /\ calls = <<>>
        /\ ~handles.scm /\ ~handles.service

\* the loop returned from the initial wait
InitialStopWitness ==
    /\ pc = "terminated"
    /\ site = "initial"
    /\ stop_result

\* C7: after the regular wait the loop returns if the wait reported "wants
\* to stop" and begins another cycle otherwise; the loop returns from nowhere
\* else than after a wait that reported "wants to stop".
RegularWaitDecides ==
    [][/\ (pc = "wait_done" /\ site = "regular" /\ pc' # pc) =>
             pc' = IF stop_result THEN "terminated" ELSE "open_registry"
       /\ (pc' = "terminated" /\ pc # "terminated") =>
             (pc = "wait_done" /\ stop_result)]_vars

\* the loop is back at the top after a regular wait that was not stopped
RegularWaitDecidesWitness ==
    /\ pc = "open_registry"
    /\ site = "regular"
    /\ ~stop_result
    /\ ~is_first_loop

\* C8: when ServicesExpectedRunning is not found the loop panics in that
\* cycle without any service-manager call.
MissingWatchListIsFatal ==
    (/\ hist.lastRead.value = "ServicesExpectedRunning"
     /\ hist.lastRead.status = "ERROR_FILE_NOT_FOUND") =>
        /\ pc = "panicked"
        /\ calls = <<>>
        /\ handles = NoHandles

MissingWatchListWitness ==
    /\ hist.lastRead.value = "ServicesExpectedRunning"
    /\ hist.lastRead.status = "ERROR_FILE_NOT_FOUND"
    /\ pc = "panicked"

\* the latest read of a required value failed: the query returned an error
\* or the decoder panicked
RequiredReadFailed ==
    /\ hist.lastRead.value \in {"ServicesExpectedRunning", "SleepDurationMilliseconds"}
    /\ hist.lastRead.status # "NO_ERROR" \/ hist.lastRead.kind = "Panic"

\* C9 as stated: when either required value cannot be read or decoded the
\* loop panics without having queried or started a service in that cycle.
ConfigFailureNoProgress ==
    RequiredReadFailed =>
        /\ pc = "panicked"
        /\ \A k \in 1..Len(calls) : ~IsQuery(calls[k]) /\ ~IsStart(calls[k])

\* C9 as amended: when a required value cannot be read or decoded the loop
\* panics in that cycle; for the watch list this is before any
\* service-manager call, for the regular interval it is after every service
\* of the list was queried (and started if Stopped), and no wait is begun.
ConfigFailureIsFatal ==
    RequiredReadFailed =>
        /\ pc = "panicked"
        /\ hist.lastRead.value = "ServicesExpectedRunning" => calls = <<>>
        /\ hist.lastRead.value = "SleepDurationMilliseconds" =>
              /\ Len(SelectSeq(calls, IsQuery)) = Len(names)
              /\ \A k \in 1..Len(calls) : ~Failed(calls[k])
              /\ milliseconds = <<>>

\* the regular interval was not found after a service had been started
ConfigFailureWitness ==
    /\ pc = "panicked"
    /\ hist.lastRead.value = "SleepDurationMilliseconds"
    /\ hist.lastRead.status = "ERROR_FILE_NOT_FOUND"
    /\ \E k \in 1..Len(calls) : IsStart(calls[k])

\* C10: a failed service-manager call is the last call of the run: the
\* process has panicked, nothing follows it, and a panicked run takes no
\* further step.
ServiceFailureIsFatal ==
    /\ [](\A k \in 1..Len(calls) :
              Failed(calls[k]) => (k = Len(calls) /\ pc = "panicked"))
    /\ [][pc = "panicked" => UNCHANGED vars]_vars

\* the start of the first of two services failed
ServiceFailureWitness ==
    /\ pc = "panicked"
    /\ Len(names) = 2
    /\ calls # <<>>
    /\ calls[Len(calls)] = Call("start", 1, names[1], "err")

IntegerKinds == {"Dword", "DwordBigEndian", "Qword"}
WaitPositions ==
    {"wait_enter", "wait_lock", "wait_locked", "wait_blocked", "wait_woken",
     "wait_sleeping", "wait_done"}

\* C11: when InitialSleepDurationMilliseconds is not found the loop does not
\* panic and does not wait: it is at the read of the watch list, with no
\* duration and no wait call site set.  When SleepDurationMilliseconds is not
\* found the loop has panicked without a duration, and a regular wait is only
\* ever in progress after a read of SleepDurationMilliseconds that succeeded
\* and decoded to an integer value.
MissingIntervals ==
    /\ (/\ hist.lastRead.value = "InitialSleepDurationMilliseconds"
        /\ hist.lastRead.status = "ERROR_FILE_NOT_FOUND") =>
          /\ pc = "read_services"
          /\ milliseconds = <<>>
          /\ site = "none"
          /\ ~hist.listRead
    /\ (/\ hist.lastRead.value = "SleepDurationMilliseconds"
        /\ hist.lastRead.status = "ERROR_FILE_NOT_FOUND") =>
          /\ pc = "panicked"
          /\ milliseconds = <<>>
    /\ (pc \in WaitPositions /\ site = "regular") =>
          /\ hist.lastRead.value = "SleepDurationMilliseconds"
          /\ hist.lastRead.status = "NO_ERROR"
          /\ hist.lastRead.kind \in IntegerKinds

\* the initial interval was not found and the loop is about to read the
\* watch list
MissingIntervalsWitness ==
    /\ pc = "read_services"
    /\ hist.lastRead.value = "InitialSleepDurationMilliseconds"
    /\ hist.lastRead.status = "ERROR_FILE_NOT_FOUND"
    /\ ~is_first_loop

IsOpen(c) == c.op = "open"
ForPositions == {"open_service", "get_state", "start"}

\* C12: the loop returns from nowhere else than a wait call that has
\* returned.  When stop() set the flag while the for loop still had a later
\* service of the watch list to process, the loop goes on through the list;
\* unless a call fails, by the time it is past the for loop every service of
\* the list was opened and queried, every query that answered Stopped was
\* followed by a start, the regular interval was read before the wait began,
\* and that wait reports "wants to stop".
NoMidIterationCancellation ==
    /\ [][(pc' = "terminated" /\ pc # "terminated") => pc = "wait_done"]_vars
    /\ [](hist.stopMidList =>
            /\ flag
            /\ pc \in ForPositions \cup {"read_sleep", "panicked", "terminated",
                                         "service_stopped"} \cup WaitPositions
            /\ pc \in {"read_sleep", "terminated", "service_stopped"} \cup WaitPositions =>
                  /\ Len(SelectSeq(calls, IsOpen)) = Len(names)
                  /\ Len(SelectSeq(calls, IsQuery)) = Len(names)
                  /\ Len(SelectSeq(calls, IsStart)) =
                        Len(SelectSeq(calls, LAMBDA c : IsQuery(c) /\ c.res = "Stopped"))
            /\ pc \in {"terminated", "service_stopped"} \cup WaitPositions =>
                  /\ site = "regular"
                  /\ hist.lastRead.value = "SleepDurationMilliseconds"
                  /\ hist.lastRead.status = "NO_ERROR"
            /\ pc = "wait_done" => stop_result)

\* stop() set the flag while the first of two services was being processed;
\* the second was still queried and started, and the loop has returned
NoMidIterationCancellationWitness ==
    /\ pc = "terminated"
    /\ hist.stopMidList
    /\ Len(names) = 2
    /\ \E k \in 1..Len(calls) :
          IsStart(calls[k]) /\ calls[k].idx = 2

\* C13: in foreground mode (OperMode::Run) no control handler is registered
\* and SERVICE_INFO holds no WaitStopper: a wait never locks the mutex or
\* blocks on the condition variable, it sleeps and reports "does not want to
\* stop"; the loop never returns, and the process ends by a panic only.
ForegroundNeverStops ==
    mode = "Run" =>
        /\ ~handler
        /\ service_info \in {"unset", "None"}
        /\ ~stop_result
        /\ pc \notin {"wait_lock", "wait_locked", "wait_blocked", "wait_woken"}
        /\ pc \notin {"terminated", "exited", "service_stopped"}
        /\ ProcessEnded => pc = "panicked"

\* in foreground mode the regular wait has slept and returned, in a cycle
\* after the first
ForegroundNeverStopsWitness ==
    /\ mode = "Run"
    /\ pc = "wait_done"
    /\ site = "regular"
    /\ ~is_first_loop
    /\ ~stop_result
    /\ hist.lastRead.value = "SleepDurationMilliseconds"

\* C14: a wait call on the WaitStopper that blocked and returned "does not
\* want to stop" returned because its timeout elapsed, never because the
\* condition variable woke up without a notification or a timeout.
WaitHonoursTimeout ==
    (/\ pc = "wait_done"
     /\ service_info = "Some"
     /\ hist.everBlocked
     /\ ~stop_result) => hist.wake = "timeout"

\* C15: the service-manager calls of a cycle follow the watch list: after the
\* connect, the first call opens the service at position 1; an open is
\* followed by the query of the same position, a start directly follows the
\* query of the same position, and the open of position i + 1 directly
\* follows the query or the start of position i.  Every call names the
\* service at its position of the list.
CallsInListOrder ==
    \A k \in 1..Len(calls) :
        LET c == calls[k]
        IN  /\ (c.op = "connect") <=> (k = 1)
            /\ k > 1 =>
                  /\ c.idx \in 1..Len(names)
                  /\ c.name = names[c.idx]
                  /\ IsOpen(c) =>
                        IF k = 2 THEN c.idx = 1
                        ELSE /\ IsQuery(calls[k - 1]) \/ IsStart(calls[k - 1])
                             /\ c.idx = calls[k - 1].idx + 1
                  /\ IsQuery(c) =>
                        IsOpen(calls[k - 1]) /\ c.idx = calls[k - 1].idx
                  /\ IsStart(c) =>
                        IsQuery(calls[k - 1]) /\ c.idx = calls[k - 1].idx

\* both services of the list [A, B] were opened, queried and started
CallsInListOrderWitness ==
    /\ pc = "read_sleep"
    /\ names = <<<<65>>, <<66>>>>
    /\ Len(calls) = 7
    /\ [k \in 1..7 |-> <<calls[k].op, calls[k].idx>>] =
          << <<"connect", 0>>, <<"open", 1>>, <<"query", 1>>, <<"start", 1>>,
             <<"open", 2>>, <<"query", 2>>, <<"start", 2>> >>

\* the calls of this cycle made for position i of the watch list
CallsAt(i, Is(_)) == SelectSeq(calls, LAMBDA c : Is(c) /\ c.idx = i)

\* C16: when the for loop of a cycle has ended, every position of the watch
\* list, duplicates of a name included, was opened once and queried once, so
\* the number of queries is the length of the list; a position was started
\* once if its own query answered Stopped and not at all otherwise.
NoDeduplication ==
    (pc = "read_sleep" \/ (pc \in WaitPositions /\ site = "regular")) =>
        /\ Len(SelectSeq(calls, IsQuery)) = Len(names)
        /\ \A i \in 1..Len(names) :
              /\ Len(CallsAt(i, IsOpen)) = 1
              /\ Len(CallsAt(i, IsQuery)) = 1
              /\ Len(CallsAt(i, IsStart)) =
                    IF CallsAt(i, IsQuery)[1].res = "Stopped" THEN 1 ELSE 0

\* the list [B, B]: the first occurrence answered Running, the second
\* answered Stopped and was started
NoDeduplicationWitness ==
    /\ pc = "read_sleep"
    /\ names = <<<<66>>, <<66>>>>
    /\ CallsAt(1, IsQuery)[1].res = "Running"
    /\ CallsAt(2, IsQuery)[1].res = "Stopped"
    /\ Len(CallsAt(1, IsStart)) = 0
    /\ Len(CallsAt(2, IsStart)) = 1

\* C17: a call of service_control begins a stop() call only when its control
\* value is SERVICE_CONTROL_STOP; with any other value (interrogate or an
\* unknown one) it returns and nothing but the count of delivered
\* notifications changes: the flag, the mutex, the position of the loop, its
\* handles and its results stay as they were.  A stop() call begins in no
\* other way, and the flag changes only inside stop().
ControlCallbackStopsOnlyOnStop ==
    [][/\ \A control_value \in ControlValues \ {"SERVICE_CONTROL_STOP"} :
             Deliver(control_value) =>
                 UNCHANGED <<mode, pc, service_info, handler, reports,
                             is_first_loop, names, idx, milliseconds, handles,
                             site, stop_result, flag, mutex, ctl, calls, hist>>
       /\ Deliver("SERVICE_CONTROL_STOP") =>
             IF service_info = "Some"
             THEN ctl' = "stop_lock" /\ pc' = pc /\ flag' = flag
             ELSE pc' = "panicked"
       /\ (ctl' = "stop_lock" /\ ctl # "stop_lock") =>
             Deliver("SERVICE_CONTROL_STOP")
       /\ controls' # controls => \E control_value \in ControlValues :
                                      Deliver(control_value)
       /\ flag' # flag => ctl = "stop_locked"]_vars

\* one control value was delivered while the loop was blocked in a wait and
\* it was not the stop request: no stop() call has begun, the flag is not set
\* and the loop is still blocked
ControlCallbackWitness ==
    /\ controls = 1
    /\ ctl = "idle"
    /\ pc = "wait_blocked"
    /\ ~flag
    /\ ~hist.stopDone

\* the positions of the thread inside run
LoopPositions ==
    {"open_registry", "read_initial", "read_services", "connect", "open_service",
     "get_state", "start", "read_sleep", "terminated"} \cup WaitPositions

\* C18: in managed mode SERVICE_RUNNING is the first report and it has been
\* made whenever the thread is inside the loop or a configuration value has
\* been read; SERVICE_STOPPED is reported at most once, after SERVICE_RUNNING,
\* and only by the step that follows the return of the loop from a wait that
\* reported "wants to stop"; a run that has panicked has not reported
\* SERVICE_STOPPED.
LifecycleReportsOrdered ==
    /\ [](mode = "Service" =>
            /\ reports \in {<<>>, <<"SERVICE_RUNNING">>,
                            <<"SERVICE_RUNNING", "SERVICE_STOPPED">>}
            /\ pc \in LoopPositions => reports = <<"SERVICE_RUNNING">>
            /\ (hist.lastRead # NoRead \/ calls # <<>>) => reports # <<>>
            /\ (Len(reports) = 2) <=> (pc = "service_stopped")
            /\ pc = "panicked" => Len(reports) <= 1)
    /\ [][(reports' # reports /\ Len(reports') = 2) =>
             /\ pc = "terminated"
             /\ stop_result
             /\ pc' = "service_stopped"]_vars

\* the service reported SERVICE_STOPPED after a cycle in which a service was
\* started
LifecycleReportsWitness ==
    /\ mode = "Service"
    /\ pc = "service_stopped"
    /\ reports = <<"SERVICE_RUNNING", "SERVICE_STOPPED">>
    /\ \E k \in 1..Len(calls) : IsStart(calls[k])

\* C19: the initial delay is read and waited in the first cycle only, at
\* most once in a run, and before the watch list is read or a
\* service-manager call is made: is_first_loop is never set again, only a
\* first cycle reaches the read of the initial delay, the initial wait begins
\* only at that read, and once a regular wait has begun no initial wait
\* follows.  Every later cycle goes from the top of the loop to the read of
\* the watch list.  A cycle whose queries all answered a state other than
\* Stopped has started no service.
InitialDelayOnce ==
    /\ [][/\ ~is_first_loop => ~is_first_loop'
          /\ (pc' = "read_initial" /\ pc # "read_initial") =>
                (pc = "open_registry" /\ is_first_loop)
          /\ (site' = "initial" /\ site # "initial") =>
                /\ pc = "read_initial"
                /\ is_first_loop /\ ~is_first_loop'
                /\ site = "none"
                /\ calls = <<>>
                /\ ~hist.listRead
          /\ site = "regular" => site' = "regular"
          /\ (pc = "open_registry" /\ ~is_first_loop /\ pc' # pc) =>
                pc' \in {"read_services", "panicked"}]_vars
    /\ []((pc \in WaitPositions /\ site = "initial") =>
             /\ ~is_first_loop
             /\ calls = <<>>
             /\ ~hist.listRead
             /\ hist.lastRead.value = "InitialSleepDurationMilliseconds")
    /\ []((pc = "read_sleep" /\ \A k \in 1..Len(calls) : calls[k].res # "Stopped") =>
             \A k \in 1..Len(calls) : ~IsStart(calls[k]))

\* the initial wait of 500 milliseconds has returned "does not want to
\* stop"; no service-manager call was made yet
InitialDelayOnceWitness ==
    /\ pc = "wait_done"
    /\ site = "initial"
    /\ milliseconds = <<0, 0, 0, 500>>
    /\ ~stop_result
    /\ calls = <<>>

\* the values of which to_bytes panics: a MultiString with an element that
\* is empty or holds a NUL
EncodablePrecondition(v) ==
    v.kind = "MultiString" =>
        \A i \in 1..Len(v.val) : Len(v.val[i]) > 0 /\ ~Contains(v.val[i], 0)

\* C20: for every RegistryValue v other than an ExpandString, and for a
\* MultiString only when every element is non-empty and holds no NUL,
\* neither to_bytes nor decode_raw panics and
\* decode_raw(v.to_reg_value_type(), v.to_bytes()) is v: integers come back
\* exactly, strings come back exactly also when they are empty or end in NUL.
CodecRoundTrip ==
    (codec.value.kind # "ExpandString" /\ EncodablePrecondition(codec.value)) =>
        /\ codec.step \notin {"to_bytes_panicked", "decode_raw_panicked"}
        /\ codec.step = "encoded" =>
              codec.reg_value_type = to_reg_value_type(codec.value)
        /\ codec.step = "decoded" => codec.decoded = codec.value

\* the String "A\0" went through as 41 00 00 00 00 00 and came back with
\* its NUL
CodecRoundTripWitness ==
    /\ codec.step = "decoded"
    /\ codec.value = RegistryValue("String", <<65, 0>>)
    /\ codec.bs = <<65, 0, 0, 0, 0, 0>>
    /\ codec.decoded = codec.value

\* the place of element i of a list of strings in its encoding, in code
\* units: every earlier element takes its length and one terminator
RECURSIVE ElementOffset(_, _)
ElementOffset(ss, i) ==
    IF i = 1 THEN 0 ELSE ElementOffset(ss, i - 1) + Len(ss[i - 1]) + 1

\* C21: to_bytes of a MultiString panics if and only if some element is empty
\* or holds a NUL code unit.  Otherwise the bytes are the code units of each
\* element in order, each followed by one NUL, and one more NUL at the end
\* (for the empty list that NUL alone), and decode_raw gives the same list.
MultiStringEncoding ==
    (codec.value.kind = "MultiString" /\ codec.step # "value") =>
        LET ss == codec.value.val
            ws == bytes_to_wide(codec.bs)
            total == ElementOffset(ss, Len(ss) + 1)
        IN  /\ (codec.step = "to_bytes_panicked") <=>
                  (\E i \in 1..Len(ss) : Len(ss[i]) = 0 \/ Contains(ss[i], 0))
            /\ codec.step = "to_bytes_panicked" => codec.bs = <<>>
            /\ codec.step # "to_bytes_panicked" =>
                  /\ codec.reg_value_type = "REG_MULTI_SZ"
                  /\ Len(codec.bs) = 2 * (total + 1)
                  /\ \A k \in 1..Len(codec.bs) : codec.bs[k] \in 0..255
                  /\ ws[total + 1] = 0
                  /\ \A i \in 1..Len(ss) :
                        /\ SubSeq(ws, ElementOffset(ss, i) + 1,
                                  ElementOffset(ss, i) + Len(ss[i])) = ss[i]
                        /\ ws[ElementOffset(ss, i) + Len(ss[i]) + 1] = 0
                  /\ ss = <<>> => codec.bs = <<0, 0>>
                  /\ codec.step \in {"encoded", "decoded"}
                  /\ codec.step = "decoded" => codec.decoded = codec.value

\* the list ["A", "łA"] was encoded and decoded back
MultiStringEncodingWitness ==
    /\ codec.step = "decoded"
    /\ codec.value = RegistryValue("MultiString", <<<<65>>, <<322, 65>>>>)
    /\ codec.bs = <<65, 0, 0, 0, 66, 1, 65, 0, 0, 0, 0, 0>>
    /\ codec.decoded = codec.value

\* the cases in which decode_raw is to panic on a stored pair
MalformedPair(t, bs) ==
    \/ t \in {"REG_SZ", "REG_EXPAND_SZ", "REG_LINK", "REG_MULTI_SZ"} /\ Len(bs) % 2 = 1
    \/ t \in {"REG_DWORD", "REG_DWORD_BIG_ENDIAN"} /\ Len(bs) # 4
    \/ t = "REG_QWORD" /\ Len(bs) # 8
    \/ t \notin KnownTypes

\* C22: decode_raw of a stored pair panics exactly when a string-typed
\* payload has odd length, a DWORD payload is not 4 bytes long, a QWORD
\* payload is not 8 bytes long, or the type tag is unknown; the one other
\* panic is a failed environment expansion of a non-empty REG_EXPAND_SZ
\* string.  A value that is returned accounts for every byte of the payload:
\* an integer encodes back to the whole payload, a byte vector is the
\* payload, and a string has half as many code units as the payload has
\* bytes, less the one stripped NUL.
DecodeRawFailures ==
    (codec.step \in {"raw_decoded", "raw_panicked"}) =>
        LET t == codec.reg_value_type
            bs == codec.bs
            v == codec.decoded
            expansion_failed ==
                /\ t = "REG_EXPAND_SZ"
                /\ ~codec.env.ok
                /\ Len(bs) >= 2
                /\ ~(Len(bs) = 2 /\ bs = <<0, 0>>)
        IN  /\ (codec.step = "raw_panicked") <=>
                  (MalformedPair(t, bs) \/ expansion_failed)
            /\ codec.step = "raw_decoded" =>
                  /\ to_reg_value_type(v) = t
                  /\ v.kind \in IntegerKinds => to_bytes(v) = bs
                  /\ v.kind \in ByteKinds => v.val = bs
                  /\ v.kind \in {"String", "Link"} =>
                        Len(v.val) \in {Len(bs) \div 2, Len(bs) \div 2 - 1}

\* a REG_DWORD payload of three bytes was refused
DecodeRawFailuresWitness ==
    /\ codec.step = "raw_panicked"
    /\ codec.reg_value_type = "REG_DWORD"
    /\ Len(codec.bs) = 3

\* the code units of a stored payload, low byte first
PayloadUnits(bs) == [k \in 1..(Len(bs) \div 2) |-> bs[2 * k - 1] + 256 * bs[2 * k]]

\* C23: decode_raw of a REG_SZ or REG_LINK payload returns the code units of
\* the payload without the last one if that is a NUL, and all of them
\* otherwise: at most one NUL is removed, a payload that ends in two NULs
\* gives a string that ends in one, and every NUL before the last code unit
\* stays in place.
TextDecodeStripsOneTerminator ==
    (codec.step = "raw_decoded" /\ codec.reg_value_type \in {"REG_SZ", "REG_LINK"}) =>
        LET ws == PayloadUnits(codec.bs)
            str == codec.decoded.val
            n == Len(ws)
        IN  /\ Len(str) = IF n > 0 /\ ws[n] = 0 THEN n - 1 ELSE n
            /\ \A k \in 1..Len(str) : str[k] = ws[k]
            /\ (n >= 2 /\ ws[n] = 0 /\ ws[n - 1] = 0) =>
                  (Len(str) = n - 1 /\ str[n - 1] = 0)

\* the payload 41 00 00 00 00 00 00 00 decoded to "A\0\0": one of its three
\* NULs was removed
TextDecodeWitness ==
    /\ codec.step = "raw_decoded"
    /\ codec.reg_value_type = "REG_SZ"
    /\ codec.bs = <<65, 0, 0, 0, 0, 0, 0, 0>>
    /\ codec.decoded = RegistryValue("String", <<65, 0, 0>>)

\* the code units of a payload that come before its first empty segment: a
\* segment is empty where a NUL is the first code unit or follows a NUL
BeforeFirstEmptySegment(ws) ==
    LET ends == {k \in 1..Len(ws) : ws[k] = 0 /\ (k = 1 \/ ws[k - 1] = 0)}
        stop == IF ends = {} THEN Len(ws) + 1
                ELSE CHOOSE k \in ends : \A j \in ends : k <= j
    IN  SubSeq(ws, 1, stop - 1)

\* C24: decode_raw of a REG_MULTI_SZ payload returns, in order, the segments
\* between NUL code units that come before the first empty segment: every
\* string returned is non-empty and NUL-free, the strings joined by single
\* NULs are the payload up to the first empty segment (less the NUL that
\* closes the last string, if there is one), and whatever follows the first
\* empty segment is ignored.  A payload that is empty or starts with a NUL
\* gives the empty list; a last segment with no NUL after it is returned.
MultiStringDecode ==
    (codec.step = "raw_decoded" /\ codec.reg_value_type = "REG_MULTI_SZ") =>
        LET ws == PayloadUnits(codec.bs)
            ss == codec.decoded.val
            head == BeforeFirstEmptySegment(ws)
            body == IF head # <<>> /\ head[Len(head)] = 0
                    THEN SubSeq(head, 1, Len(head) - 1) ELSE head
        IN  /\ codec.decoded.kind = "MultiString"
            /\ \A i \in 1..Len(ss) : Len(ss[i]) > 0 /\ ~Contains(ss[i], 0)
            /\ (ws = <<>> \/ ws[1] = 0) <=> (ss = <<>>)
            /\ ss # <<>> =>
                  /\ Len(body) = ElementOffset(ss, Len(ss) + 1) - 1
                  /\ \A i \in 1..Len(ss) :
                        /\ SubSeq(body, ElementOffset(ss, i) + 1,
                                  ElementOffset(ss, i) + Len(ss[i])) = ss[i]
                        /\ i < Len(ss) =>
                              body[ElementOffset(ss, i) + Len(ss[i]) + 1] = 0
            /\ (ws # <<>> /\ ws[Len(ws)] # 0 /\ head = ws) =>
                  ss[Len(ss)][Len(ss[Len(ss)])] = ws[Len(ws)]

\* the payload "A" NUL NUL NUL "A" decoded to ["A"]: what follows the double
\* NUL was ignored
MultiStringDecodeWitness ==
    /\ codec.step = "raw_decoded"
    /\ codec.reg_value_type = "REG_MULTI_SZ"
    /\ codec.bs = <<65, 0, 0, 0, 0, 0, 65, 0>>
    /\ codec.decoded = RegistryValue("MultiString", <<<<65>>>>)

\* C25: the bytes of an ExpandString are those of the String made of its
\* unexpanded field, whatever its expanded field is; decode_raw of these
\* bytes panics only if the environment expansion fails, and otherwise gives
\* an ExpandString with the same unexpanded field.
ExpandStringEncoding ==
    (codec.value.kind = "ExpandString" /\ codec.step # "value") =>
        LET u == codec.value.val.unexpanded
        IN  /\ codec.step \in {"encoded", "decoded", "decode_raw_panicked"}
            /\ codec.reg_value_type = "REG_EXPAND_SZ"
            /\ codec.bs = to_bytes(RegistryValue("String", u))
            /\ PayloadUnits(codec.bs) = Append(u, 0)
            /\ \A e \in Strings :
                  to_bytes(RegistryValue("ExpandString",
                                         [unexpanded |-> u, expanded |-> e]))
                      = codec.bs
            /\ codec.step = "decode_raw_panicked" => (~codec.env.ok /\ u # <<>>)
            /\ codec.step = "decoded" =>
                  /\ codec.decoded.kind = "ExpandString"
                  /\ codec.decoded.val.unexpanded = u

\* unexpanded "A" with expanded "C\0" was encoded as 41 00 00 00 and decoded
\* to an ExpandString with unexpanded "A"
ExpandStringEncodingWitness ==
    /\ codec.step = "decoded"
    /\ codec.value = RegistryValue("ExpandString",
                                   [unexpanded |-> <<65>>, expanded |-> <<67, 0>>])
    /\ codec.bs = <<65, 0, 0, 0>>
    /\ codec.decoded.val.unexpanded = <<65>>

\* C26: the handles are scoped to one cycle.  Outside the loop body, at the
\* top of the loop and after the loop has returned or the process has ended,
\* no handle is open.  Inside a cycle the registry handle is open; the
\* service-manager handle is open only during the for loop and the service
\* handle only between the open of a service and the end of its iteration.
\* So wherever a handle of some kind is about to be opened none of that kind
\* is open, and a return from either wait releases what the cycle held.
HandlesScopedToCycle ==
    /\ pc \notin (LoopPositions \ {"open_registry", "terminated"}) =>
          handles = NoHandles
    /\ pc \in {"read_initial", "read_services", "connect", "read_sleep"}
                 \cup WaitPositions =>
          handles = [registry |-> TRUE, scm |-> FALSE, service |-> FALSE]
    /\ pc = "open_service" =>
          handles = [registry |-> TRUE, scm |-> TRUE, service |-> FALSE]
    /\ pc \in {"get_state", "start"} =>
          handles = [registry |-> TRUE, scm |-> TRUE, service |-> TRUE]

\* a cycle that opened and started a service has ended and the loop is at
\* its top again with every handle released
HandlesScopedWitness ==
    /\ pc = "open_registry"
    /\ site = "regular"
    /\ handles = NoHandles
    /\ \E k \in 1..Len(calls) : IsStart(calls[k])

\* C27: every cycle reads the watch list and the regular interval anew.  The
\* loop leaves its top only for a registry read; the service manager is
\* connected to only from the read of ServicesExpectedRunning, and names
\* changes only there and becomes the list decoded from the entry just read;
\* a regular wait begins only from the read of SleepDurationMilliseconds,
\* with the milliseconds decoded from the entry just read; no duration is
\* kept from one wait to the next.
ConfigReadEveryCycle ==
    [][/\ (pc = "open_registry" /\ pc' # pc) =>
             pc' \in {"read_initial", "read_services", "panicked"}
       /\ (pc' = "connect" /\ pc # "connect") => pc = "read_services"
       /\ names' # names => pc = "read_services"
       /\ (pc = "read_services" /\ pc' = "connect") =>
             \E entry \in ServicesEntries, env \in EnvAnswers :
                 /\ hist'.lastRead = Read("ServicesExpectedRunning", entry, env)
                 /\ entry.status = "NO_ERROR"
                 /\ names' = decode_raw(entry.type, entry.bytes, env).val
       /\ (pc' = "wait_enter" /\ pc # "wait_enter") =>
             /\ pc \in {"read_initial", "read_sleep"}
             /\ milliseconds = <<>>
             /\ site' = (IF pc = "read_sleep" THEN "regular" ELSE "initial")
             /\ \E entry \in SleepEntries, env \in EnvAnswers :
                   /\ entry.status = "NO_ERROR"
                   /\ hist'.lastRead.status = "NO_ERROR"
                   /\ milliseconds' =
                         sleep_milliseconds(decode_raw(entry.type, entry.bytes, env))
       /\ (milliseconds' # milliseconds /\ milliseconds' # <<>>) =>
             pc \in {"read_initial", "read_sleep"}
       /\ (pc = "wait_done" /\ pc' # pc) => milliseconds' = <<>>]_vars

\* in a cycle after the first the list [B, B] was read and its first service
\* is about to be opened
ConfigReadEveryCycleWitness ==
    /\ pc = "open_service"
    /\ site = "regular"
    /\ idx = 1
    /\ names = <<<<66>>, <<66>>>>
    /\ hist.lastRead.value = "ServicesExpectedRunning"

\* C28: every call of run_service leaves SERVICE_INFO with a stop signal
\* whose flag is clear, so the loop of that run does not begin with a signal
\* that is already stopped.
FreshStopSignalPerRun ==
    [][(pc = "set_service_info" /\ pc' = "report_running") => ~flag']_vars

\* the integer a well-formed REG_DWORD, REG_DWORD_BIG_ENDIAN or REG_QWORD
\* entry stores, as the four 16-bit words of a 64-bit number
StoredInteger(entry) ==
    LET b == entry.bytes
    IN  CASE entry.type = "REG_DWORD" ->
                 <<0, 0, b[3] + 256 * b[4], b[1] + 256 * b[2]>>
          [] entry.type = "REG_DWORD_BIG_ENDIAN" ->
                 <<0, 0, 256 * b[1] + b[2], 256 * b[3] + b[4]>>
          [] entry.type = "REG_QWORD" ->
                 <<b[7] + 256 * b[8], b[5] + 256 * b[6],
                   b[3] + 256 * b[4], b[1] + 256 * b[2]>>

\* the entry is read without error and decodes to one of the integer values
IsIntegerEntry(entry, env) ==
    /\ entry.status = "NO_ERROR"
    /\ decode_raw(entry.type, entry.bytes, env).kind \in IntegerKinds

\* the latest read returned a value that decoded to a kind outside `kinds`
WrongShape(value, kinds) ==
    /\ hist.lastRead.value = value
    /\ hist.lastRead.status = "NO_ERROR"
    /\ hist.lastRead.kind \notin kinds

\* C29: a value of the wrong shape is fatal.  A watch list that is read but
\* is not a MultiString leaves the loop panicked with no service-manager call
\* made in that cycle; an initial delay or a regular interval that is read but
\* is not a Dword, DwordBigEndian or Qword leaves the loop panicked with no
\* duration set and no wait begun.  A read of either duration that yields one
\* of the three integer kinds begins a wait whose milliseconds are the
\* stored integer, and they stay so until the wait has returned.
WrongShapeIsFatal ==
    /\ [](/\ WrongShape("ServicesExpectedRunning", {"MultiString"}) =>
                pc = "panicked" /\ calls = <<>>
          /\ \A value \in {"InitialSleepDurationMilliseconds",
                           "SleepDurationMilliseconds"} :
                WrongShape(value, IntegerKinds) =>
                    /\ pc = "panicked"
                    /\ milliseconds = <<>>
                    /\ hist.wake = "none"
                    /\ ~hist.everBlocked)
    /\ [][/\ \A entry \in SleepEntries, env \in EnvAnswers :
                (/\ ReadInitial(entry, env) \/ ReadSleep(entry, env)
                 /\ IsIntegerEntry(entry, env)) =>
                    /\ pc' = "wait_enter"
                    /\ milliseconds' = StoredInteger(entry)
          /\ (pc \in WaitPositions \ {"wait_done"}) =>
                milliseconds' = milliseconds]_vars

\* the regular interval is stored as the text "5": the loop panicked after
\* the services of the cycle were processed, without a duration
WrongShapeWitness ==
    /\ pc = "panicked"
    /\ hist.lastRead = [value |-> "SleepDurationMilliseconds",
                        status |-> "NO_ERROR", kind |-> "String"]
    /\ milliseconds = <<>>
    /\ \E k \in 1..Len(calls) : IsQuery(calls[k])

\* C30: in managed mode a failed registration of service_control and a
\* failed report of SERVICE_RUNNING end the process at once; the loop is
\* entered only with the callback registered and SERVICE_RUNNING reported, and
\* a process that panicked before that report has read no configuration
\* value, made no service-manager call and opened no handle; a panicked
\* process takes no further step.
StartupFailureIsFatal ==
    /\ [](mode = "Service" =>
            /\ pc \in LoopPositions => handler /\ reports # <<>>
            /\ (pc = "panicked" /\ reports = <<>>) =>
                  /\ hist.lastRead = NoRead
                  /\ ~hist.listRead
                  /\ calls = <<>>
                  /\ is_first_loop
                  /\ handles = NoHandles)
    /\ [][/\ \A num_args \in {0, 1} :
                RegisterHandler(num_args, "err") =>
                    pc' = "panicked" /\ ~handler' /\ reports' = <<>>
          /\ ReportRunning("err") => pc' = "panicked" /\ reports' = <<>>
          /\ pc = "panicked" => pc' = "panicked"]_vars

\* the callback was registered, no control was delivered, and the report of
\* SERVICE_RUNNING failed: the process panicked before the loop
StartupFailureWitness ==
    /\ mode = "Service"
    /\ pc = "panicked"
    /\ handler
    /\ service_info = "Some"
    /\ controls = 0
    /\ reports = <<>>
    /\ hist.lastRead = NoRead

IsStop(c) == c.op = "stop"
IsDelete(c) == c.op = "delete"

\* C31: in delete mode a stop command is issued exactly when the state just
\* queried is not Stopped, and the delete command is issued only after a
\* query that returned Stopped or after a stop command that succeeded; a stop
\* that fails is the last call and the process has panicked.
DeleteStopsFirst ==
    mode = "Delete" =>
        \A k \in 1..Len(calls) :
            /\ (IsQuery(calls[k]) /\ calls[k].res \in ServiceStates) =>
                  IF calls[k].res = "Stopped"
                  THEN IF k = Len(calls) THEN pc = "manage_delete"
                       ELSE IsDelete(calls[k + 1])
                  ELSE IF k = Len(calls) THEN pc = "manage_stop"
                       ELSE IsStop(calls[k + 1])
            /\ IsStop(calls[k]) =>
                  /\ k > 1
                  /\ IsQuery(calls[k - 1])
                  /\ calls[k - 1].res \in ServiceStates \ {"Stopped"}
                  /\ IF calls[k].res = "ok"
                     THEN IF k = Len(calls) THEN pc = "manage_delete"
                          ELSE IsDelete(calls[k + 1])
                     ELSE k = Len(calls) /\ pc = "panicked"
            /\ IsDelete(calls[k]) =>
                  /\ k > 1
                  /\ k = Len(calls)
                  /\ \/ IsQuery(calls[k - 1]) /\ calls[k - 1].res = "Stopped"
                     \/ IsStop(calls[k - 1]) /\ calls[k - 1].res = "ok"
                  /\ Len(SelectSeq(calls, IsDelete)) = 1

\* a service that was StopPending was stopped and then deleted
DeleteStopsFirstWitness ==
    /\ mode = "Delete"
    /\ pc = "exited"
    /\ Len(calls) = 5
    /\ calls[3] = Call("query", 1, names[1], "StopPending")
    /\ calls[4] = Call("stop", 1, names[1], "ok")
    /\ calls[5] = Call("delete", 1, names[1], "ok")

\* C32: while the loop is blocked in the regular wait no handle of the cycle
\* is open: neither the registry key nor the service manager nor a service.
NoHandlesWhileSleeping ==
    (pc \in {"wait_blocked", "wait_sleeping"} /\ site = "regular") =>
        handles = NoHandles

\* the access rights of the service handle the process opens in its mode
OpenRights ==
    IF mode \in ManageModes THEN ManagePermissions(mode)
    ELSE LoopServicePermissions

\* C33: every start command goes through a service handle that was opened
\* with the START access right.
StartsHaveStartRight ==
    \A k \in 1..Len(calls) : IsStart(calls[k]) => "START" \in OpenRights

\* C34: in managed mode SERVICE_INFO holds the ServiceInfo with the stop
\* signal when SERVICE_RUNNING is about to be reported and ever after, and it
\* is not changed after the report; a control delivered after the report
\* never panics, and a stop control makes service_control call stop().
StopSignalPublishedBeforeRunning ==
    /\ [](mode = "Service" =>
            ((pc = "report_running" \/ reports # <<>>) =>
                 service_info = "Some" /\ handler))
    /\ [][/\ reports # <<>> => service_info' = service_info
          /\ \A control_value \in ControlValues :
                (Deliver(control_value) /\ reports # <<>>) =>
                    /\ pc' = pc
                    /\ is_stop_control(control_value) => ctl' = "stop_lock"]_vars

\* SERVICE_RUNNING was reported, the loop is blocked in a wait, and the
\* callback of the first control delivered is about to call stop()
StopSignalPublishedWitness ==
    /\ mode = "Service"
    /\ reports = <<"SERVICE_RUNNING">>
    /\ service_info = "Some"
    /\ pc = "wait_blocked"
    /\ ctl = "stop_lock"
    /\ controls = 1

\* C35: a wait call reports "wants to stop" only when the flag is set, and
\* the flag is set by nothing but the assignment in stop(); every return of
\* wait_until_stop_timeout, the one after a timeout included, returns the
\* flag as it is at that step, which is taken with the mutex free for the
\* waiting thread.
NoUnrequestedStop ==
    /\ [](stop_result => flag)
    /\ [][/\ flag' # flag => (StopSet /\ flag')
          /\ (pc \in {"wait_locked", "wait_woken"} /\ pc' = "wait_done") =>
                /\ stop_result' = flag
                /\ flag' = flag
                /\ mutex \in {"none", "run"}
                /\ mutex' = "none"]_vars

\* the timeout elapsed while stop() was setting the flag: the wait ended by
\* timeout and returned the flag it found set
NoUnrequestedStopWitness ==
    /\ pc = "wait_done"
    /\ hist.wake = "timeout"
    /\ hist.setWhileBlocked
    /\ stop_result
    /\ flag

\* the steps of the codec after a stored REG_MULTI_SZ payload was decoded
MultiStepsAfterDecode ==
    {"raw_decoded", "reencoded", "reencode_panicked", "redecoded",
     "redecode_panicked"}

\* C36: the list decode_raw returns for a REG_MULTI_SZ payload of even
\* length has only non-empty elements without a NUL code unit; to_bytes of
\* that list does not panic, and decode_raw of its bytes does not panic and
\* returns the same list.
MultiStringDecodeReencodes ==
    (codec.step \in MultiStepsAfterDecode /\ codec.reg_value_type = "REG_MULTI_SZ") =>
        /\ codec.step \notin {"reencode_panicked", "redecode_panicked"}
        /\ codec.decoded.kind = "MultiString"
        /\ \A i \in 1..Len(codec.decoded.val) :
              /\ Len(codec.decoded.val[i]) > 0
              /\ ~Contains(codec.decoded.val[i], 0)
        /\ codec.step \in {"reencoded", "redecoded"} =>
              /\ codec.bs = to_bytes(codec.decoded)
              /\ Len(codec.bs) % 2 = 0
              /\ codec.step = "redecoded" => codec.again = codec.decoded

\* the list [A, A] that a stored payload was decoded to was encoded again
\* and decoded to the same list
MultiStringDecodeReencodesWitness ==
    /\ codec.step = "redecoded"
    /\ codec.decoded = RegistryValue("MultiString", <<<<65>>, <<65>>>>)
    /\ codec.bs = <<65, 0, 0, 0, 65, 0, 0, 0, 0, 0>>
    /\ codec.again = codec.decoded

\* the stored watch list decodes to a list without a name
IsEmptyListEntry(entry, env) ==
    /\ entry.status = "NO_ERROR"
    /\ decode_raw(entry.type, entry.bytes, env) = RegistryValue("MultiString", <<>>)

\* C37: a watch list that decodes to the empty list is accepted: the loop
\* goes on to connect to the service manager, and unless that fails it reads
\* the regular interval next, with no service opened, queried or started in
\* the cycle; the read of the interval then begins the regular wait with the
\* stored number of milliseconds as in every cycle.
EmptyWatchListIsFine ==
    /\ []((names = <<>> /\ hist.listRead /\ pc \in LoopPositions
             /\ pc \notin {"open_registry", "read_initial", "read_services"}
             /\ hist.lastRead.value # "InitialSleepDurationMilliseconds") =>
            /\ pc \in {"connect", "read_sleep", "terminated"} \cup WaitPositions
            /\ pc # "connect" => calls = <<Call("connect", 0, <<>>, "ok")>>
            /\ pc \in WaitPositions => site = "regular" /\ milliseconds # <<>>)
    /\ [][/\ \A entry \in ServicesEntries, env \in EnvAnswers :
                (ReadServices(entry, env) /\ IsEmptyListEntry(entry, env)) =>
                    pc' = "connect" /\ names' = <<>>
          /\ \A res \in Results :
                (Connect(res) /\ names = <<>>) =>
                    pc' = (IF res = "ok" THEN "read_sleep" ELSE "panicked")
          /\ \A entry \in SleepEntries, env \in EnvAnswers :
                (ReadSleep(entry, env) /\ names = <<>> /\ IsIntegerEntry(entry, env)) =>
                    /\ pc' = "wait_enter"
                    /\ site' = "regular"
                    /\ milliseconds' = StoredInteger(entry)]_vars

\* the loop is blocked in the regular wait of a cycle whose watch list was
\* empty: the connection to the service manager is the only call it made
EmptyWatchListWitness ==
    /\ mode = "Service"
    /\ pc = "wait_blocked"
    /\ site = "regular"
    /\ names = <<>>
    /\ hist.listRead
    /\ calls = <<Call("connect", 0, <<>>, "ok")>>
    /\ milliseconds = <<0, 0, 0, 500>>

====
